---- MODULE Spec2Model ----
(***************************************************************************)
(* Model of the per-target session engine of xk6-browser                   *)
(* (common/frame_session.go): the FrameSession event handlers for          *)
(* execution contexts, frame attach/detach and target attach/detach,       *)
(* acting on the frame registry and page shared by all sessions.           *)
(*                                                                         *)
(* Frame, FrameManager, Page and k6Throw are used by frame_session.go but  *)
(* defined elsewhere in the repository; the operators that stand for them  *)
(* follow the specification's description of their behaviour.              *)
(***************************************************************************)
EXTENDS Integers, Sequences, FiniteSets, TLC

\* ---------------------------------------------------------------- bounds
MaxFrames == 3      \* frame ids handed out by the browser: 0 .. MaxFrames-1
MaxSessions == 1    \* CDP sessions attached after the main one: 1 .. MaxSessions
MaxCtx == 2         \* execution context ids per session: 1 .. MaxCtx
MaxEvents == 3      \* events the browser emits on the event channels, in all
MaxOptions == 2     \* browser context options set to other than their default
MaxTime == 2        \* timestamps of lifecycle events: 1 .. MaxTime

\* ------------------------------------------------------------- constants
utilityWorldName == "__k6_browser_utility_world__"
otherWorldName == "other_world"
mainExecutionContext == "main"
utilityExecutionContext == "utility"
abnormalClosure == "websocket: close 1006 (abnormal closure)"
otherError == "some other error"

MainFrame == 0
zeroTime == 0       \* the zero value of cdp.MonotonicTime

\* no lifecycle event handled yet
NoEvents == [last |-> zeroTime, ordered |-> TRUE, recent |-> <<>>]
MainSession == 0
NoFrame == -1
NoSession == -1
FrameIds == 0 .. (MaxFrames - 1)
TargetIds == 1 .. MaxFrames          \* MaxFrames: a target id that is no frame id
SessionIds == 0 .. MaxSessions
CtxIds == 1 .. MaxCtx
NoCtx == [sid |-> NoSession, id |-> 0, frame |-> NoFrame]
NoSlots == [main |-> NoCtx, utility |-> NoCtx]
NoPending == [target |-> NoFrame, child |-> NoSession, early |-> FALSE, removed |-> {}]

VARIABLES
    frames,              \* FrameManager.frames: ids of the registered frames
    parentFrame,         \* Frame.parentFrame, NoFrame for the root and for removed frames
    nextFrame,           \* browser: the next frame id it will hand out
    executionContexts,   \* Frame main / utility world slot, per Frame object
    loops,               \* FrameSessions whose event-dispatch goroutine is running
    fsTarget,            \* FrameSession.targetID
    fsParent,            \* FrameSession.parent
    contextIDToContext,  \* FrameSession.contextIDToContext
    isolatedWorlds,      \* FrameSession.isolatedWorlds
    nextCtx,             \* browser: next execution context id of the session's renderer
    nextSid,             \* browser: next CDP session id
    frameSessions,       \* Page.frameSessions: frame id -> registered child FrameSession
    workers,             \* Page.workers: session ids with a Worker record
    pc,                  \* per session: "idle" or "constructing" (inside onAttachedToTarget)
    pending,             \* per session: the child construction in progress
    build,               \* the NewFrameSession call that runs step by step: its position
    connected,           \* Browser.connected
    ctxDone,             \* fs.ctx cancelled
    fatal,               \* k6Throw was called: the script run is terminated
    wire,                \* per session: every event the browser has emitted to it, in order
    eventCh,             \* FrameSession.eventCh: events sent to the channel, not yet received
    handled,             \* per session: the events whose handler has returned, in order
    crashed,             \* Session.crashed: the sessions marked as crashed
    didCrash,            \* Page: the sessions whose handler has called Page.didCrash
    initTime,            \* FrameSession.initTime
    timestamps,          \* the lifecycle events so far: the timestamp of the last one
                         \* (the browser's monotonic clock), whether none decreased,
                         \* per session the timestamp of its last init or commit
    lifecycleEvents,     \* Frame.lifecycleEvents: the events that are true
    subtreeLifecycleEvents,  \* Frame.subtreeLifecycleEvents: the events that are true
    inflightRequests,    \* Frame.inflightRequests
    networkIdleTimers,   \* per frame: its network-idle timer workers that are waiting
    pendingDocument,     \* Frame.pendingDocument: the navigation requested, "" for none
    sent,                \* CDP commands sent by the handler that ran last
    last                 \* the handler that ran last, with its inputs and local results

vars == <<frames, parentFrame, nextFrame, executionContexts, loops, fsTarget, fsParent,
          contextIDToContext, isolatedWorlds, nextCtx, nextSid, frameSessions, workers,
          pc, pending, build, connected, ctxDone, fatal, wire, eventCh, handled, crashed,
          didCrash, initTime, timestamps, lifecycleEvents, subtreeLifecycleEvents,
          inflightRequests, networkIdleTimers, pendingDocument, sent, last>>

frameVars == <<frames, parentFrame, nextFrame>>
sessionVars == <<loops, fsTarget, fsParent, nextSid, pc, pending>>
pageVars == <<frameSessions, workers>>
envVars == <<connected, ctxDone>>
ctxVars == <<executionContexts, contextIDToContext, isolatedWorlds, nextCtx>>
chanVars == <<wire, eventCh, handled>>
crashVars == <<crashed, didCrash>>
timeVars == <<initTime, timestamps>>
lifeVars == <<lifecycleEvents, subtreeLifecycleEvents, inflightRequests, networkIdleTimers,
             pendingDocument>>

\* ------------------------------------------------- Frame and FrameManager
getFrameByID(fr, fid) == IF fid \in fr THEN fid ELSE NoFrame

hasContext(ec, f, world) == ec[f][world] # NoCtx

setContext(ec, f, world, ctx) == [ec EXCEPT ![f][world] = ctx]

nullContext(ec, f, id) ==
    [ec EXCEPT ![f] = [main    |-> IF @.main.id = id THEN NoCtx ELSE @.main,
                       utility |-> IF @.utility.id = id THEN NoCtx ELSE @.utility]]

RECURSIVE ancestors(_, _)
ancestors(par, f) ==
    IF par[f] = NoFrame THEN {} ELSE {par[f]} \cup ancestors(par, par[f])

descendants(fr, par, f) == {g \in fr : f \in ancestors(par, g)}

\* ------------------------------------------------ fatal escalation (k6Throw)
Running == ~fatal

Ready(s) == Running /\ s \in loops /\ pc[s] = "idle"

\* ------------------------------------------------------ execution contexts
\* frame_session.go 521-532: the world picked for a new context
chooseWorld_noHasCheck(frameKnown, isDefault, name, hasUtility) ==
    IF ~frameKnown THEN ""
    ELSE IF isDefault THEN mainExecutionContext
    ELSE IF name = utilityWorldName THEN utilityExecutionContext
    ELSE ""

chooseWorld_nameOnly(frameKnown, isDefault, name, hasUtility) ==
    IF ~frameKnown THEN ""
    ELSE IF name = utilityWorldName /\ ~hasUtility THEN utilityExecutionContext
    ELSE IF isDefault THEN mainExecutionContext
    ELSE ""

chooseWorld(frameKnown, isDefault, name, hasUtility) ==
    IF ~frameKnown THEN ""
    ELSE IF isDefault THEN mainExecutionContext
    ELSE IF name = utilityWorldName /\ ~hasUtility THEN utilityExecutionContext
    ELSE ""

\* frame_session.go 533-535
recordIsolatedWorld_never(iw, type, name) == iw

recordIsolatedWorld(iw, type, name) ==
    IF type = "isolated" THEN iw \cup {name} ELSE iw

\* frame_session.go 536: NewExecutionContext(ctx, session, frame, id, logger)
NewExecutionContext(s, frame, id) == [sid |-> s, id |-> id, frame |-> frame]

\* frame_session.go 537-539
bindContext(ec, frame, world, ctx) ==
    IF world # "" THEN setContext(ec, frame, world, ctx) ELSE ec

\* frame_session.go 540-542
registerContext_boundOnly(m, id, ctx, world) ==
    IF world # "" THEN (id :> ctx) @@ m ELSE m

registerContext(m, id, ctx, world) == (id :> ctx) @@ m

\* frame_session.go 558
deleteContext_all(m, id) == <<>>

deleteContext(m, id) == [k \in (DOMAIN m) \ {id} |-> m[k]]

\* frame_session.go 555-557
nullContextOf_keep(ec, ctx, id) == ec

nullContextOf(ec, ctx, id) ==
    IF ctx.frame # NoFrame THEN nullContext(ec, ctx.frame, id) ELSE ec

\* frame_session.go 568-572: null the slots of every context of the map
nullAll_none(ec, m, ids) == ec

RECURSIVE nullAll(_, _, _)
nullAll(ec, m, ids) ==
    IF ids = {} THEN ec
    ELSE LET k == CHOOSE x \in ids : TRUE
         IN nullAll(nullContextOf(ec, m[k], m[k].id), m, ids \ {k})

\* frame_session.go 573-575
clearMap_keepUnbound(m) == [k \in {x \in DOMAIN m : m[x].frame = NoFrame} |-> m[k]]

clearMap(m) == <<>>

\* frame_session.go 508-543
onExecutionContextCreated(s) ==
    /\ Ready(s)
    /\ nextCtx[s] <= MaxCtx
    /\ nextCtx' = [nextCtx EXCEPT ![s] = @ + 1]
    /\ \/ \* 518-520: auxData does not parse, k6Throw
          /\ fatal' = TRUE
          /\ last' = [op |-> "created", s |-> s, id |-> nextCtx[s], done |-> FALSE]
          /\ UNCHANGED <<executionContexts, contextIDToContext, isolatedWorlds>>
       \/ \E fid \in FrameIds, isDefault \in BOOLEAN,
             name \in {utilityWorldName, otherWorldName},
             type \in {"default", "isolated"} :
            LET id == nextCtx[s]
                frame == getFrameByID(frames, fid)
                world == chooseWorld(frame # NoFrame, isDefault, name,
                            frame # NoFrame
                            /\ hasContext(executionContexts, fid, utilityExecutionContext))
                context == NewExecutionContext(s, frame, id)
            IN /\ fatal' = fatal
               /\ isolatedWorlds' = [isolatedWorlds EXCEPT
                                       ![s] = recordIsolatedWorld(@, type, name)]
               /\ executionContexts' = bindContext(executionContexts, frame, world, context)
               /\ contextIDToContext' = [contextIDToContext EXCEPT
                                       ![s] = registerContext(@, id, context, world)]
               /\ last' = [op |-> "created", s |-> s, id |-> id, done |-> TRUE,
                           fid |-> fid, isDefault |-> isDefault, name |-> name,
                           type |-> type, world |-> world,
                           worlds0 |-> isolatedWorlds[s],
                           utility0 |-> IF frame # NoFrame
                                        THEN executionContexts[fid].utility ELSE NoCtx,
                           afterClear |-> (last.op = "cleared" /\ last.s = s)]
    /\ sent' = <<>>
    /\ UNCHANGED <<frameVars, sessionVars, pageVars, envVars>>
    /\ UNCHANGED <<chanVars, crashVars>>
    /\ UNCHANGED <<timeVars, lifeVars>>
    /\ UNCHANGED build

\* the creation that the destruction of context id of session s follows at once
undone(s, id) ==
    IF last.op = "created" /\ last.s = s /\ last.id = id /\ last.done
    THEN last ELSE [op |-> "none"]

\* frame_session.go 545-559
onExecutionContextDestroyed(s) ==
    /\ Ready(s)
    /\ \E execCtxID \in CtxIds :
        LET ok == execCtxID \in DOMAIN contextIDToContext[s]
        IN /\ last' = [op |-> "destroyed", s |-> s, id |-> execCtxID, ok |-> ok,
                       prev |-> undone(s, execCtxID)]
           /\ \/ /\ ~ok
                 /\ UNCHANGED <<executionContexts, contextIDToContext>>
              \/ /\ ok
                 /\ LET context == contextIDToContext[s][execCtxID]
                    IN /\ executionContexts' =
                              nullContextOf(executionContexts, context, execCtxID)
                       /\ contextIDToContext' = [contextIDToContext EXCEPT
                                                   ![s] = deleteContext(@, execCtxID)]
    /\ sent' = <<>>
    /\ UNCHANGED <<isolatedWorlds, nextCtx, fatal, frameVars, sessionVars, pageVars, envVars>>
    /\ UNCHANGED <<chanVars, crashVars>>
    /\ UNCHANGED <<timeVars, lifeVars>>
    /\ UNCHANGED build

\* the world slots that hold a context registered in the map m
slotsOf(ec, m) ==
    {<<f, w>> \in FrameIds \X {mainExecutionContext, utilityExecutionContext} :
        /\ ec[f][w].id \in DOMAIN m
        /\ m[ec[f][w].id] = ec[f][w]}

\* frame_session.go 561-576
onExecutionContextsCleared(s) ==
    /\ Ready(s)
    /\ last' = [op |-> "cleared", s |-> s,
                n |-> Cardinality(DOMAIN contextIDToContext[s]),
                k |-> Cardinality(slotsOf(executionContexts, contextIDToContext[s]))]
    /\ executionContexts' = nullAll(executionContexts, contextIDToContext[s],
                                    DOMAIN contextIDToContext[s])
    /\ contextIDToContext' = [contextIDToContext EXCEPT ![s] = clearMap(@)]
    /\ sent' = <<>>
    /\ UNCHANGED <<isolatedWorlds, nextCtx, fatal, frameVars, sessionVars, pageVars, envVars>>
    /\ UNCHANGED <<chanVars, crashVars>>
    /\ UNCHANGED <<timeVars, lifeVars>>
    /\ UNCHANGED build

\* ------------------------------------------------- lifecycle of frames
LifecycleEventLoad == "load"
LifecycleEventDOMContentLoad == "DOMContentLoaded"
LifecycleEventNetworkIdle == "networkidle"
LifecycleEvents ==
    {LifecycleEventDOMContentLoad, LifecycleEventLoad, LifecycleEventNetworkIdle}

\* Frame.childFrames
childFrames(fr, par, f) == {c \in fr : par[c] = f}

\* Frame.recalculateLifecycle: the own events of the frame that every child has
\* as subtree events
RECURSIVE subtreeEvents(_, _, _, _)
subtreeEvents(own, fr, par, f) ==
    {e \in own[f] : \A c \in childFrames(fr, par, f) : e \in subtreeEvents(own, fr, par, c)}

\* the recalculation started at the main frame replaces the subtree events of
\* every frame of the tree
recalculateLifecycle(own, sub, fr, par) ==
    [f \in FrameIds |->
        IF f \in fr /\ MainFrame \in fr /\ (f = MainFrame \/ MainFrame \in ancestors(par, f))
        THEN subtreeEvents(own, fr, par, f) ELSE sub[f]]

\* EventFrameAddLifecycle / EventFrameRemoveLifecycle emitted by a recalculation
lifecycleEmits(sub, new) ==
    UNION {{<<"FrameAddLifecycle", f, e>> : e \in new[f] \ sub[f]}
           \cup {<<"FrameRemoveLifecycle", f, e>> : e \in sub[f] \ new[f]} : f \in FrameIds}

\* FrameManager.frameLifecycleEvent: the event becomes true for a frame of the
\* registry and the main frame recalculates
frameLifecycleEvent(own, sub, fr, par, frameID, event) ==
    IF getFrameByID(fr, frameID) = NoFrame THEN [own |-> own, sub |-> sub]
    ELSE LET o == [own EXCEPT ![frameID] = @ \cup {event}]
         IN [own |-> o, sub |-> recalculateLifecycle(o, sub, fr, par)]

\* the lifecycle state of the frames
Life == [own |-> lifecycleEvents, sub |-> subtreeLifecycleEvents,
         inflight |-> inflightRequests, timers |-> networkIdleTimers,
         pending |-> pendingDocument]

SetLife(L) ==
    /\ lifecycleEvents' = L.own
    /\ subtreeLifecycleEvents' = L.sub
    /\ inflightRequests' = L.inflight
    /\ networkIdleTimers' = L.timers
    /\ pendingDocument' = L.pending

\* Frame.stopNetworkIdleTimer: the waiting worker is cancelled
stopNetworkIdleTimer(timers, f) == [timers EXCEPT ![f] = 0]

\* Frame.startNetworkIdleTimer: a detached or already idle frame starts no
\* worker; the worker that waits is stopped before the new one starts
startNetworkIdleTimer_noStop(timers, own, fr, f) ==
    IF f \notin fr \/ LifecycleEventNetworkIdle \in own[f] THEN timers
    ELSE [timers EXCEPT ![f] = @ + 1]

startNetworkIdleTimer(timers, own, fr, f) ==
    IF f \notin fr \/ LifecycleEventNetworkIdle \in own[f] THEN timers
    ELSE [stopNetworkIdleTimer(timers, f) EXCEPT ![f] = @ + 1]

\* Frame.detach for every frame that left the registry: its timer is stopped
\* and the frame is dropped with what it held
detachTimers_keep(timers, gone) == timers

detachTimers(timers, gone) == [f \in FrameIds |-> IF f \in gone THEN 0 ELSE timers[f]]

detached(L, gone, fr, par) ==
    IF gone = {} THEN L ELSE
    LET own == [f \in FrameIds |-> IF f \in gone THEN {} ELSE L.own[f]]
        sub == [f \in FrameIds |-> IF f \in gone THEN {} ELSE L.sub[f]]
    IN [own |-> own,
        sub |-> recalculateLifecycle(own, sub, fr, par),
        inflight |-> [f \in FrameIds |-> IF f \in gone THEN {} ELSE L.inflight[f]],
        timers |-> detachTimers(L.timers, gone),
        pending |-> [f \in FrameIds |-> IF f \in gone THEN "" ELSE L.pending[f]]]

\* a frame joined the registry: the subtree events of its ancestors follow
attached_noRecalculation(L, fr, par) == L

attached(L, fr, par) == [L EXCEPT !.sub = recalculateLifecycle(L.own, L.sub, fr, par)]

\* Frame.clearLifecycle of a committed navigation; kept: the in-flight requests
\* of the current document
clearLifecycle_noStop(L, f, kept, fr, par) ==
    LET own == [L.own EXCEPT ![f] = {}]
    IN [own |-> own,
        sub |-> recalculateLifecycle(own, L.sub, fr, par),
        inflight |-> [L.inflight EXCEPT ![f] = kept],
        timers |-> IF kept = {} THEN startNetworkIdleTimer_noStop(L.timers, own, fr, f)
                   ELSE L.timers,
        pending |-> [L.pending EXCEPT ![f] = ""]]

clearLifecycle(L, f, kept, fr, par) ==
    LET own == [L.own EXCEPT ![f] = {}]
        inflight == [L.inflight EXCEPT ![f] = kept]
        stopped == stopNetworkIdleTimer(L.timers, f)
    IN [own |-> own,
        sub |-> recalculateLifecycle(own, L.sub, fr, par),
        inflight |-> inflight,
        timers |-> IF kept = {} THEN startNetworkIdleTimer(stopped, own, fr, f)
                   ELSE stopped,
        pending |-> [L.pending EXCEPT ![f] = ""]]

\* the lifecycle of every frame of navs is cleared (initial navigations of the
\* frames of a frame tree)
RECURSIVE seeded(_, _, _, _)
seeded(L, navs, fr, par) ==
    IF navs = {} THEN L
    ELSE LET f == CHOOSE x \in navs : TRUE
         IN seeded(clearLifecycle(L, f, {}, fr, par), navs \ {f}, fr, par)

\* the lifecycle state of frames right after their initial navigation: no event
\* yet, no request in flight, the network-idle timer started
initialLife(fr) ==
    [own |-> [f \in FrameIds |-> {}], sub |-> [f \in FrameIds |-> {}],
     inflight |-> [f \in FrameIds |-> {}],
     timers |-> [f \in FrameIds |-> IF f \in fr THEN 1 ELSE 0],
     pending |-> [f \in FrameIds |-> ""]]

\* Frame.onLoadingStopped
onLoadingStopped(own, f) == [own EXCEPT ![f] = LifecycleEvents]

\* FrameManager.frameLoadingStopped
frameLoadingStopped(L, fr, par, frameID) ==
    IF getFrameByID(fr, frameID) = NoFrame THEN L
    ELSE LET own == onLoadingStopped(L.own, frameID)
         IN [L EXCEPT !.own = own, !.sub = recalculateLifecycle(own, L.sub, fr, par)]

\* ------------------------------------------------------------ frame events
\* FrameManager.frameAttached: a frame already registered is left alone, a new
\* one is registered under its parent when the parent is registered
frameAttached(fr, par, frameID, parentFrameID) ==
    IF frameID \notin fr /\ parentFrameID \in fr
    THEN <<fr \cup {frameID}, [par EXCEPT ![frameID] = parentFrameID]>>
    ELSE <<fr, par>>

\* removal of a set of frames from the registry; their parent links are cleared
removeFrames(fr, par, gone) ==
    <<fr \ gone, [f \in FrameIds |-> IF f \in gone THEN NoFrame ELSE par[f]]>>

\* FrameManager.frameDetached: the frame and its subtree leave the registry;
\* the root frame is never removed
frameDetached(fr, par, frameID) ==
    IF frameID \in fr /\ par[frameID] # NoFrame
    THEN removeFrames(fr, par, {frameID} \cup descendants(fr, par, frameID))
    ELSE <<fr, par>>

\* FrameManager.removeChildFramesRecursively: every descendant of the frame
\* leaves the registry, the frame itself stays
removeChildFramesRecursively(fr, par, frame) ==
    removeFrames(fr, par, descendants(fr, par, frame))

\* frame_session.go 578-585
onFrameAttached(s) ==
    /\ Ready(s)
    \* the browser never hands out a frame id twice: the event names a registered
    \* frame or the next fresh id
    /\ \E frameID \in (frames \cup {nextFrame}) \cap FrameIds, parentFrameID \in FrameIds :
        /\ frameID # parentFrameID
        /\ LET r == frameAttached(frames, parentFrame, frameID, parentFrameID)
           IN /\ frames' = r[1]
              /\ parentFrame' = r[2]
              /\ nextFrame' = IF frameID \in r[1] /\ frameID = nextFrame
                              THEN nextFrame + 1 ELSE nextFrame
              /\ SetLife(attached(Life, r[1], r[2]))
        /\ last' = [op |-> "frameAttached", s |-> s, fid |-> frameID]
    /\ sent' = <<>>
    /\ UNCHANGED <<ctxVars, sessionVars, pageVars, envVars, fatal>>
    /\ UNCHANGED <<chanVars, crashVars, timeVars>>
    /\ UNCHANGED build

\* frame_session.go 587-592
onFrameDetached(s) ==
    /\ Ready(s)
    /\ \E frameID \in FrameIds :
        /\ LET r == frameDetached(frames, parentFrame, frameID)
           IN /\ frames' = r[1]
              /\ parentFrame' = r[2]
              /\ SetLife(detached(Life, frames \ r[1], r[1], r[2]))
        /\ last' = [op |-> "frameDetached", s |-> s, fid |-> frameID,
                    pending |-> networkIdleTimers[frameID] > 0]
    /\ sent' = <<>>
    /\ UNCHANGED <<nextFrame, ctxVars, sessionVars, pageVars, envVars, fatal>>
    /\ UNCHANGED <<chanVars, crashVars, timeVars>>
    /\ UNCHANGED build

\* ----------------------------------------------------------- target events
Cmd(sid, name, reply) == [sid |-> sid, cmd |-> name, reply |-> reply]

\* frame_session.go 751, 780: which branch of onAttachedToTarget handles the target
attachRoute_anyIframe(type, url) ==
    IF type = "iframe" THEN "iframe"
    ELSE IF type # "worker" THEN "other"
    ELSE "worker"

attachRoute(type, url) ==
    IF type = "iframe" /\ url # "" THEN "iframe"
    ELSE IF type # "worker" THEN "other"
    ELSE "worker"

\* frame_session.go 752-755: the iframe branch goes on only for a registered frame
iframeProceeds_always(fr, targetID) == TRUE

iframeProceeds(fr, targetID) == getFrameByID(fr, targetID) # NoFrame

\* frame_session.go 756
iframeRemoveChildren_skip(fr, par, frame) == <<fr, par>>

iframeRemoveChildren(fr, par, frame) == removeChildFramesRecursively(fr, par, frame)

\* frame_session.go 759-773 and 796-810: what becomes of a construction error
attachErrorOutcome_noCancel(isConnected, cause, done) ==
    IF ~isConnected /\ cause = abnormalClosure THEN "suppressed"
    ELSE "fatal"

attachErrorOutcome_anyClosure(isConnected, cause, done) ==
    IF cause = abnormalClosure THEN "suppressed"
    ELSE IF done THEN "suppressed"
    ELSE "fatal"

attachErrorOutcome(isConnected, cause, done) ==
    IF ~isConnected /\ cause = abnormalClosure THEN "suppressed"
    ELSE IF done THEN "suppressed"
    ELSE "fatal"

\* Page.attachFrameSession: the session is registered under the frame id
attachFrameSession(fss, frameID, child) == [fss EXCEPT ![frameID] = child]

\* frame_session.go 776: reached only when NewFrameSession returned no error
registerChild_always(fss, frameID, child, failed) ==
    attachFrameSession(fss, frameID, child)

registerChild(fss, frameID, child, failed) ==
    IF failed THEN fss ELSE attachFrameSession(fss, frameID, child)

\* frame_session.go 788-789
detachCmds(session) ==
    << Cmd(session, "Runtime.runIfWaitingForDebugger", FALSE),
       Cmd(session, "Target.detachFromTarget", FALSE) >>

\* NewFrameSession for a child session (fs.parent # nil), frame_session.go 113-131:
\* the commands up to initEvents; NewNetworkManager sends none that is modelled
earlyCmds(child, earlyFail) ==
    IF earlyFail = "NewNetworkManager" THEN <<>>
    ELSE << Cmd(child, "Browser.getWindowForTarget", TRUE) >>

\* NewFrameSession for a child session, frame_session.go 134-149, with the browser
\* context options at their defaults: initFrameTree (no seeding, 282),
\* initIsolatedWorld, initDomains, initOptions
lateCmds(child, worldKnown) ==
    << Cmd(child, "Page.enable", TRUE),
       Cmd(child, "Page.getFrameTree", TRUE),
       Cmd(child, "Page.setLifecycleEventsEnabled", TRUE) >>
    \o (IF worldKnown THEN <<>>
        ELSE << Cmd(child, "Page.createIsolatedWorld", FALSE),
                Cmd(child, "Page.addScriptToEvaluateOnNewDocument", TRUE) >>)
    \o << Cmd(child, "DOM.enable", TRUE),
          Cmd(child, "Log.enable", TRUE),
          Cmd(child, "Runtime.enable", TRUE),
          Cmd(child, "Target.setAutoAttach", TRUE),
          Cmd(child, "Emulation.setEmulatedMedia", TRUE),
          Cmd(child, "Runtime.runIfWaitingForDebugger", TRUE) >>

\* the awaited commands of a command list: the positions where it can fail
awaited(cmds) == {k \in 1 .. Len(cmds) : cmds[k].reply}

Causes == {abnormalClosure, otherError}

\* frame_session.go 741-756 and, in the iframe branch, NewFrameSession up to the
\* start of the child's event loop (91-133); 780-813 for the other branches
onAttachedToTarget(s) ==
    /\ Ready(s)
    /\ nextSid <= MaxSessions
    /\ \E type \in {"iframe", "worker", "page"}, url \in {"", "u"}, targetID \in TargetIds :
        LET session == nextSid
            route == attachRoute(type, url)
            ev == [op |-> "attached", s |-> s, session |-> session, type |-> type,
                   url |-> url, targetID |-> targetID]
        IN /\ nextSid' = nextSid + 1
           /\ \/ /\ route = "iframe"
                 /\ ~iframeProceeds(frames, targetID)
                 /\ last' = ev @@ [route |-> "unknownFrame"]
                 /\ sent' = <<>>
                 /\ UNCHANGED <<frames, parentFrame, loops, fsTarget, fsParent, pc,
                                pending, workers, fatal>>
              \/ /\ route = "iframe"
                 /\ iframeProceeds(frames, targetID)
                 /\ \E earlyFail \in {"none", "NewNetworkManager", "GetWindowForTarget"} :
                      LET r == iframeRemoveChildren(frames, parentFrame, targetID)
                      IN /\ frames' = r[1]
                         /\ parentFrame' = r[2]
                         /\ fsTarget' = [fsTarget EXCEPT ![session] = targetID]
                         /\ fsParent' = [fsParent EXCEPT ![session] = s]
                         /\ loops' = IF earlyFail = "none" THEN loops \cup {session}
                                     ELSE loops
                         /\ pc' = [pc EXCEPT ![s] = "constructing"]
                         /\ pending' = [pending EXCEPT ![s] =
                                          [target |-> targetID, child |-> session,
                                           early |-> earlyFail # "none",
                                           removed |-> frames \ r[1]]]
                         /\ last' = ev @@ [route |-> "iframe"]
                         /\ sent' = earlyCmds(session, earlyFail)
                 /\ UNCHANGED <<workers, fatal>>
              \/ /\ route = "other"
                 /\ last' = ev @@ [route |-> "other"]
                 /\ sent' = detachCmds(session)
                 /\ UNCHANGED <<frames, parentFrame, loops, fsTarget, fsParent, pc,
                                pending, workers, fatal>>
              \/ /\ route = "worker"
                 \* 794-812: NewWorker, failing or not
                 /\ \E failed \in BOOLEAN :
                    \E cause \in IF failed THEN Causes ELSE {otherError} :
                      LET outcome == IF failed
                                     THEN attachErrorOutcome(connected, cause, ctxDone)
                                     ELSE "ok"
                      IN /\ workers' = IF outcome = "ok" THEN workers \cup {session}
                                       ELSE workers
                         /\ fatal' = (outcome = "fatal")
                         /\ last' = ev @@ [route |-> "worker", outcome |-> outcome,
                                           cause |-> cause, err |-> failed]
                 /\ sent' = <<>>
                 /\ UNCHANGED <<frames, parentFrame, loops, fsTarget, fsParent, pc, pending>>
    \* the frames removed in the iframe branch are detached
    /\ SetLife(detached(Life, frames \ frames', frames', parentFrame'))
    /\ UNCHANGED <<nextFrame, ctxVars, frameSessions, envVars>>
    /\ UNCHANGED <<chanVars, crashVars, timeVars>>
    /\ UNCHANGED build

\* the rest of the iframe branch: NewFrameSession 134-151 returns, then
\* frame_session.go 758-777
onAttachedToTargetReturn(s) ==
    /\ Running
    /\ pc[s] = "constructing"
    /\ LET p == pending[s]
           child == p.child
           worldKnown == utilityWorldName \in isolatedWorlds[child]
           cmds == lateCmds(child, worldKnown)
       IN \E failAt \in IF p.early THEN {0} ELSE {0} \cup awaited(cmds) :
          \E cause \in IF p.early \/ failAt # 0 THEN Causes ELSE {otherError} :
            LET failed == p.early \/ failAt # 0
                \* 298-303: the world name is recorded once lifecycle events are enabled
                recorded == ~p.early /\ (failAt = 0 \/ failAt > 3)
                \* 309-314: the target's frame is looked up again; ID() of a frame
                \* that has left the registry dereferences nil
                nilFrame == recorded /\ ~worldKnown
                            /\ getFrameByID(frames, p.target) = NoFrame
                outcome == IF nilFrame THEN "fatal"
                           ELSE IF failed
                           THEN attachErrorOutcome(connected, cause, ctxDone)
                           ELSE "ok"
            IN /\ isolatedWorlds' = [isolatedWorlds EXCEPT ![child] =
                                       IF recorded THEN @ \cup {utilityWorldName} ELSE @]
               /\ sent' = IF p.early THEN <<>>
                          ELSE IF nilFrame THEN SubSeq(cmds, 1, 3)
                          ELSE IF failAt = 0 THEN cmds
                          ELSE SubSeq(cmds, 1, failAt)
               /\ fatal' = (outcome = "fatal")
               /\ frameSessions' = registerChild(frameSessions, p.target, child,
                                                 outcome # "ok")
               /\ last' = [op |-> "attachedReturn", s |-> s, session |-> child,
                           targetID |-> p.target, outcome |-> outcome, cause |-> cause,
                           err |-> (failed /\ ~nilFrame), removed |-> p.removed]
    /\ pc' = [pc EXCEPT ![s] = "idle"]
    /\ pending' = [pending EXCEPT ![s] = NoPending]
    /\ UNCHANGED <<frameVars, executionContexts, contextIDToContext, nextCtx, loops,
                   fsTarget, fsParent, nextSid, workers, envVars>>
    /\ UNCHANGED <<chanVars, crashVars>>
    /\ UNCHANGED <<timeVars, lifeVars>>
    /\ UNCHANGED build

\* frame_session.go 815-819: Page.closeWorker drops the worker of the session
onDetachedFromTarget(s) ==
    /\ Ready(s)
    /\ \E session \in 1 .. MaxSessions :
        /\ workers' = workers \ {session}
        /\ last' = [op |-> "detached", s |-> s, session |-> session]
    /\ sent' = <<>>
    /\ UNCHANGED <<frameVars, ctxVars, sessionVars, frameSessions, envVars, fatal>>
    /\ UNCHANGED <<chanVars, crashVars>>
    /\ UNCHANGED <<timeVars, lifeVars>>
    /\ UNCHANGED build

\* ------------------------------------------------------------ environment
\* the browser connection is lost
Disconnect ==
    /\ Running /\ connected
    /\ connected' = FALSE
    /\ last' = [op |-> "disconnect"]
    /\ sent' = <<>>
    /\ UNCHANGED <<frameVars, ctxVars, sessionVars, pageVars, ctxDone, fatal>>
    /\ UNCHANGED <<chanVars, crashVars>>
    /\ UNCHANGED <<timeVars, lifeVars>>
    /\ UNCHANGED build

\* the context shared by the page's FrameSessions is cancelled
Cancel ==
    /\ Running /\ ~ctxDone
    /\ ctxDone' = TRUE
    /\ last' = [op |-> "cancel"]
    /\ sent' = <<>>
    /\ UNCHANGED <<frameVars, ctxVars, sessionVars, pageVars, connected, fatal>>
    /\ UNCHANGED <<chanVars, crashVars>>
    /\ UNCHANGED <<timeVars, lifeVars>>
    /\ UNCHANGED build

\* frame_session.go 213-218: the event loop returns on ctx.Done
loopExit_stay(s) ==
    /\ Ready(s) /\ ctxDone
    /\ last' = [op |-> "loopExit", s |-> s]
    /\ sent' = <<>>
    /\ UNCHANGED <<frameVars, ctxVars, sessionVars, pageVars, envVars, fatal,
                   chanVars, crashVars>>
    /\ UNCHANGED <<timeVars, lifeVars>>
    /\ UNCHANGED build

loopExit(s) ==
    /\ Ready(s) /\ ctxDone
    /\ loops' = loops \ {s}
    /\ last' = [op |-> "loopExit", s |-> s]
    /\ sent' = <<>>
    /\ UNCHANGED <<frameVars, ctxVars, fsTarget, fsParent, nextSid, pc, pending,
                   pageVars, envVars, fatal>>
    /\ UNCHANGED <<chanVars, crashVars>>
    /\ UNCHANGED <<timeVars, lifeVars>>
    /\ UNCHANGED build

\* ------------------------------------------------- the event channel
\* Session.on(ctx, events, fs.eventCh) (frame_session.go 202, 436): the session
\* sends the subscribed events to the channel in the order the browser emitted
\* them; a send completes when the loop receives.
Event(type, fid, parent) == [type |-> type, fid |-> fid, parent |-> parent]

EventFrames == 1 .. (MaxFrames - 1)

Events ==
    {Event("targetCrashed", NoFrame, NoFrame)}
    \cup {Event("frameAttached", f, MainFrame) : f \in EventFrames}
    \cup {Event("frameNavigated", f, MainFrame) : f \in EventFrames}
    \cup {Event("frameDetached", f, NoFrame) : f \in EventFrames}

RECURSIVE emitted(_)
emitted(S) ==
    IF S = {} THEN 0
    ELSE LET x == CHOOSE y \in S : TRUE IN Len(wire[x]) + emitted(S \ {x})

\* the browser emits an event to a session that has subscribed
emit(s) ==
    /\ Running
    /\ fsTarget[s] # NoFrame
    /\ emitted(SessionIds) < MaxEvents
    /\ \E e \in Events :
        /\ wire' = [wire EXCEPT ![s] = Append(@, e)]
        /\ eventCh' = [eventCh EXCEPT ![s] = Append(@, e)]
    /\ last' = [op |-> "emit", s |-> s]
    /\ sent' = <<>>
    /\ UNCHANGED <<frameVars, ctxVars, sessionVars, pageVars, envVars, fatal, handled,
                   crashVars>>
    /\ UNCHANGED <<timeVars, lifeVars>>
    /\ UNCHANGED build

\* frame_session.go 219: event := <-fs.eventCh
chanRecv(ch) == <<Head(ch), Tail(ch)>>

\* frame_session.go 211-212: the loop selects again only after the handler it
\* called has returned
loopFree_always(p) == TRUE

loopFree(p) == p = "idle"

\* FrameManager.frameNavigated: a navigation of the root registers the main
\* frame if there is none; a navigation of any other frame needs the frame to
\* be registered and is an error otherwise
frameNavigated(fr, par, frameID, parentFrameID) ==
    IF parentFrameID = NoFrame
    THEN [frames |-> fr \cup {frameID}, parentFrame |-> par, err |-> FALSE]
    ELSE [frames |-> fr, parentFrame |-> par, err |-> frameID \notin fr]

\* the lifecycle state after FrameManager.frameNavigated returned n: a committed
\* navigation of a registered frame clears the frame's lifecycle
navigated(L, n, frameID, kept) ==
    IF n.err \/ frameID \notin n.frames THEN L
    ELSE clearLifecycle(L, frameID, kept, n.frames, n.parentFrame)

\* frame_session.go 823-824: the calls of onTargetCrashed, in order
onTargetCrashedCalls_notifyFirst == <<"didCrash", "markAsCrashed">>

onTargetCrashedCalls == <<"markAsCrashed", "didCrash">>

\* Session.markAsCrashed and Page.didCrash
crashCall(name, s, cr, dc) ==
    IF name = "markAsCrashed" THEN <<cr \cup {s}, dc>> ELSE <<cr, dc \cup {s}>>

\* frame_session.go 211-255: the loop receives the next event and calls its
\* handler: onFrameAttached (578-585), onFrameNavigated (594-602), onFrameDetached
\* (587-592) run to their return; onTargetCrashed (821-825) up to the return of
\* its first call
eventLoop(s) ==
    /\ Running /\ s \in loops /\ loopFree(pc[s])
    /\ eventCh[s] # <<>>
    /\ LET r == chanRecv(eventCh[s])
           e == r[1]
       IN /\ eventCh' = [eventCh EXCEPT ![s] = r[2]]
          /\ \/ /\ e.type = "targetCrashed"
                /\ LET c == crashCall(onTargetCrashedCalls[1], s, crashed, didCrash)
                   IN crashed' = c[1] /\ didCrash' = c[2]
                /\ pc' = [pc EXCEPT ![s] = "crashing"]
                /\ last' = [op |-> "event", s |-> s, event |-> e, done |-> FALSE]
                /\ UNCHANGED <<frameVars, handled, fatal, lifeVars>>
             \/ /\ e.type = "frameAttached"
                /\ LET a == frameAttached(frames, parentFrame, e.fid, e.parent)
                   IN /\ frames' = a[1]
                      /\ parentFrame' = a[2]
                      /\ nextFrame' = IF e.fid \in a[1] /\ e.fid >= nextFrame
                                      THEN e.fid + 1 ELSE nextFrame
                      /\ SetLife(attached(Life, a[1], a[2]))
                /\ handled' = [handled EXCEPT ![s] = Append(@, e)]
                /\ last' = [op |-> "event", s |-> s, event |-> e, done |-> TRUE]
                /\ UNCHANGED <<pc, crashVars, fatal>>
             \/ /\ e.type = "frameNavigated"
                /\ LET n == frameNavigated(frames, parentFrame, e.fid, e.parent)
                   IN /\ frames' = n.frames
                      /\ parentFrame' = n.parentFrame
                      \* 598-600: k6Throw
                      /\ fatal' = n.err
                      /\ handled' = [handled EXCEPT
                                       ![s] = IF n.err THEN @ ELSE Append(@, e)]
                      /\ last' = [op |-> "event", s |-> s, event |-> e,
                                  done |-> ~n.err]
                      /\ SetLife(navigated(Life, n, e.fid, {}))
                /\ UNCHANGED <<nextFrame, pc, crashVars>>
             \/ /\ e.type = "frameDetached"
                /\ LET d == frameDetached(frames, parentFrame, e.fid)
                   IN /\ frames' = d[1]
                      /\ parentFrame' = d[2]
                      /\ SetLife(detached(Life, frames \ d[1], d[1], d[2]))
                /\ handled' = [handled EXCEPT ![s] = Append(@, e)]
                /\ last' = [op |-> "event", s |-> s, event |-> e, done |-> TRUE]
                /\ UNCHANGED <<nextFrame, pc, crashVars, fatal>>
    /\ sent' = <<>>
    /\ UNCHANGED <<ctxVars, loops, fsTarget, fsParent, nextSid, pending, pageVars,
                   envVars, wire, timeVars>>
    /\ UNCHANGED build

\* frame_session.go 821-825: the second call of onTargetCrashed and its return
onTargetCrashed(s) ==
    /\ Running /\ s \in loops
    /\ pc[s] = "crashing"
    /\ LET c == crashCall(onTargetCrashedCalls[2], s, crashed, didCrash)
       IN crashed' = c[1] /\ didCrash' = c[2]
    /\ pc' = [pc EXCEPT ![s] = "idle"]
    /\ handled' = [handled EXCEPT
                     ![s] = Append(@, Event("targetCrashed", NoFrame, NoFrame))]
    /\ last' = [op |-> "targetCrashed", s |-> s]
    /\ sent' = <<>>
    /\ UNCHANGED <<frameVars, ctxVars, loops, fsTarget, fsParent, nextSid, pending,
                   pageVars, envVars, fatal, wire, eventCh>>
    /\ UNCHANGED <<timeVars, lifeVars>>
    /\ UNCHANGED build

\* ------------------------------------------- diagnostic and page events
\* log.Level of the entries of Log.entryAdded
EntryLevels == {"verbose", "info", "warning", "error"}

\* runtime.APIType of Runtime.consoleAPICalled
ConsoleTypes == {"log", "debug", "info", "error", "warning", "dir", "trace", "assert"}

\* frame_session.go 492-501
consoleSeverity_infoOnly(type) ==
    IF type = "info" THEN "Info"
    ELSE IF type = "warning" THEN "Warn"
    ELSE IF type = "error" THEN "Error"
    ELSE "Debug"

consoleSeverity(type) ==
    IF type \in {"log", "info"} THEN "Info"
    ELSE IF type = "warning" THEN "Warn"
    ELSE IF type = "error" THEN "Error"
    ELSE "Debug"

\* frame_session.go 641-650
entrySeverity_errorIsWarn(level) ==
    IF level = "info" THEN "Info"
    ELSE IF level \in {"warning", "error"} THEN "Warn"
    ELSE "Debug"

entrySeverity(level) ==
    IF level = "info" THEN "Info"
    ELSE IF level = "warning" THEN "Warn"
    ELSE IF level = "error" THEN "Error"
    ELSE "Debug"

\* handleParseRemoteObjectErr: the error of an argument that does not parse is
\* logged, the handler goes on
handleParseRemoteObjectErr(err) == FALSE

\* frame_session.go 472-502
onConsoleAPICalled(s) ==
    /\ Ready(s)
    /\ \E type \in ConsoleTypes, parseErr \in BOOLEAN :
        /\ fatal' = handleParseRemoteObjectErr(parseErr)
        /\ last' = [op |-> "consoleAPICalled", s |-> s, level |-> type,
                    parseErr |-> parseErr, severity |-> consoleSeverity(type)]
    /\ sent' = <<>>
    /\ UNCHANGED <<frameVars, ctxVars, sessionVars, pageVars, envVars>>
    /\ UNCHANGED <<chanVars, crashVars>>
    /\ UNCHANGED <<timeVars, lifeVars>>
    /\ UNCHANGED build

\* frame_session.go 631-651
onLogEntryAdded(s) ==
    /\ Ready(s)
    /\ \E level \in EntryLevels :
        last' = [op |-> "logEntryAdded", s |-> s, level |-> level,
                 parseErr |-> FALSE, severity |-> entrySeverity(level)]
    /\ sent' = <<>>
    /\ UNCHANGED <<frameVars, ctxVars, sessionVars, pageVars, envVars, fatal>>
    /\ UNCHANGED <<chanVars, crashVars>>
    /\ UNCHANGED <<timeVars, lifeVars>>
    /\ UNCHANGED build

\* frame_session.go 598-600, 611-613: k6Throw on an error of the frame manager
escalated_never(err) == FALSE

escalated(err) == err

\* cdppage.ClientNavigationDisposition
Dispositions == {"currentTab", "newTab", "newWindow", "download"}

URLs == {"a", "b"}

\* frame_session.go 609
dispositionProceeds_always(disposition) == TRUE

dispositionProceeds(disposition) == disposition = "currentTab"

\* FrameManager.frameRequestedNavigation: the requested navigation becomes the
\* pending document of a frame of the registry
frameRequestedNavigation(pd, fr, frameID, url) ==
    IF getFrameByID(fr, frameID) = NoFrame THEN pd ELSE [pd EXCEPT ![frameID] = url]

\* frame_session.go 604-615; err: the frame manager returns an error
onFrameRequestedNavigation(s) ==
    /\ Ready(s)
    /\ \E frameID \in FrameIds, url \in URLs, disposition \in Dispositions, err \in BOOLEAN :
        LET called == dispositionProceeds(disposition)
        IN /\ called \/ ~err
           /\ pendingDocument' =
                IF called /\ ~err
                THEN frameRequestedNavigation(pendingDocument, frames, frameID, url)
                ELSE pendingDocument
           \* 611-613
           /\ fatal' = escalated(called /\ err)
           /\ last' = [op |-> "frameRequestedNavigation", s |-> s, fid |-> frameID,
                       url |-> url, disposition |-> disposition, called |-> called,
                       err |-> err]
    /\ sent' = <<>>
    /\ UNCHANGED <<frameVars, ctxVars, sessionVars, pageVars, envVars>>
    /\ UNCHANGED <<chanVars, crashVars, timeVars>>
    /\ UNCHANGED <<lifecycleEvents, subtreeLifecycleEvents, inflightRequests,
                   networkIdleTimers>>
    /\ UNCHANGED build

\* frame_session.go 594-602; the root of the frame tree is the main frame
onFrameNavigated(s) ==
    /\ Ready(s)
    /\ \E frameID \in FrameIds, parentFrameID \in FrameIds \cup {NoFrame} :
        /\ (parentFrameID = NoFrame) = (frameID = MainFrame)
        /\ frameID \in frames => parentFrameID = parentFrame[frameID]
        /\ \E kept \in {{}} \cup {{r} : r \in inflightRequests[frameID]} :
            LET n == frameNavigated(frames, parentFrame, frameID, parentFrameID)
            IN /\ frames' = n.frames
               /\ parentFrame' = n.parentFrame
               \* 598-600
               /\ fatal' = escalated(n.err)
               /\ SetLife(navigated(Life, n, frameID, kept))
               /\ last' = [op |-> "frameNavigated", s |-> s, fid |-> frameID,
                           err |-> n.err]
    /\ sent' = <<>>
    /\ UNCHANGED <<nextFrame, ctxVars, sessionVars, pageVars, envVars>>
    /\ UNCHANGED <<chanVars, crashVars, timeVars>>
    /\ UNCHANGED build

\* frame_session.go 624-629
onFrameStoppedLoading(s) ==
    /\ Ready(s)
    /\ \E frameID \in FrameIds :
        LET L == frameLoadingStopped(Life, frames, parentFrame, frameID)
        IN /\ SetLife(L)
           /\ last' = [op |-> "frameStoppedLoading", s |-> s, fid |-> frameID,
                       emits |-> lifecycleEmits(subtreeLifecycleEvents, L.sub)]
    /\ sent' = <<>>
    /\ UNCHANGED <<frameVars, ctxVars, sessionVars, pageVars, envVars, fatal>>
    /\ UNCHANGED <<chanVars, crashVars, timeVars>>
    /\ UNCHANGED build

\* cdppage.EventLifecycleEvent.Name
LifecycleNames == {"init", "commit", "DOMContentLoaded", "load", "firstPaint"}

Timestamps == 1 .. MaxTime

\* frame_session.go 662-663, 683-684: the lifecycle event a name stands for
lifecycleOf_networkIdle(name) ==
    IF name = "load" THEN LifecycleEventLoad
    ELSE IF name = "DOMContentLoaded" THEN LifecycleEventDOMContentLoad
    ELSE IF name = "networkIdle" THEN LifecycleEventNetworkIdle
    ELSE ""

lifecycleOf(name) ==
    IF name = "load" THEN LifecycleEventLoad
    ELSE IF name = "DOMContentLoaded" THEN LifecycleEventDOMContentLoad
    ELSE ""

\* frame_session.go 675, 696, 705-709: the metric of a name
metricOf(name) ==
    IF name = "load" THEN "BrowserLoaded"
    ELSE IF name = "DOMContentLoaded" THEN "BrowserDOMContentLoaded"
    ELSE IF name = "firstPaint" THEN "BrowserFirstPaint"
    ELSE IF name = "firstContentfulPaint" THEN "BrowserFirstContentfulPaint"
    ELSE IF name = "firstMeaningfulPaint" THEN "BrowserFirstMeaningfulPaint"
    ELSE ""

\* frame_session.go 677, 698, 724: endTime.Sub(fs.initTime.Time())
duration_sinceZero(endTime, init) == endTime - zeroTime

duration(endTime, init) == endTime - init

\* frame_session.go 659-661
recordInitTime_onlyInit(name, init, timestamp) ==
    IF name = "init" THEN timestamp ELSE init

recordInitTime(name, init, timestamp) ==
    IF name \in {"init", "commit"} THEN timestamp ELSE init

\* k6stats.PushIfNotDone: nothing is pushed once the context is done
PushIfNotDone(done, samples) == IF done THEN <<>> ELSE samples

\* frame_session.go 665, 686, 711-712: a sample is pushed for a registered frame
\* and a name that has a metric
sampled_anyFrame(frame, name) == metricOf(name) # ""

sampled(frame, name) == frame # NoFrame /\ metricOf(name) # ""

\* frame_session.go 653-733, for an event with one of the names and timestamps
lifecycleEvent(s, names, times) ==
    /\ Ready(s)
    /\ \E frameID \in FrameIds, name \in names, timestamp \in times :
        LET init == recordInitTime(name, initTime[s], timestamp)
            event == lifecycleOf(name)
            r == IF event = "" THEN [own |-> lifecycleEvents, sub |-> subtreeLifecycleEvents]
                 ELSE frameLifecycleEvent(lifecycleEvents, subtreeLifecycleEvents,
                                          frames, parentFrame, frameID, event)
            frame == getFrameByID(frames, frameID)
            samples == IF sampled(frame, name)
                       THEN PushIfNotDone(ctxDone,
                                << [metric |-> metricOf(name),
                                    value |-> duration(timestamp, init)] >>)
                       ELSE <<>>
        IN /\ initTime' = [initTime EXCEPT ![s] = init]
           /\ timestamps' = [last |-> timestamp,
                             ordered |-> timestamps.ordered
                                         /\ timestamps.last <= timestamp,
                             recent |-> IF name \in {"init", "commit"}
                                        THEN (s :> timestamp) @@ timestamps.recent
                                        ELSE timestamps.recent]
           /\ lifecycleEvents' = r.own
           /\ subtreeLifecycleEvents' = r.sub
           /\ last' = [op |-> "lifecycleEvent", s |-> s, fid |-> frameID, name |-> name,
                       timestamp |-> timestamp, known |-> frame # NoFrame,
                       done |-> ctxDone, samples |-> samples,
                       emits |-> lifecycleEmits(subtreeLifecycleEvents, r.sub)]
    /\ sent' = <<>>
    /\ UNCHANGED <<frameVars, ctxVars, sessionVars, pageVars, envVars, fatal>>
    /\ UNCHANGED <<chanVars, crashVars>>
    /\ UNCHANGED <<inflightRequests, networkIdleTimers, pendingDocument>>
    /\ UNCHANGED build

\* frame_session.go 653-733
onPageLifecycle(s) == lifecycleEvent(s, LifecycleNames, Timestamps)

\* the names of Page.lifecycleEvent that are neither load nor DOMContentLoaded
PaintNames == {"firstPaint", "firstContentfulPaint", "firstMeaningfulPaint"}

OtherLifecycleNames == {"init", "commit", "networkIdle", "networkAlmostIdle"} \cup PaintNames

\* requests the network manager reports to a frame
RequestIds == {"R1", "R2"}

\* a request of a frame starts: it is in flight, the waiting timer is reset
requestStarted(f) ==
    /\ Running
    /\ f \in frames
    /\ \E r \in RequestIds \ inflightRequests[f] :
        /\ inflightRequests' = [inflightRequests EXCEPT ![f] = @ \cup {r}]
        /\ last' = [op |-> "requestStarted", fid |-> f, request |-> r]
    /\ sent' = <<>>
    /\ UNCHANGED <<frameVars, ctxVars, sessionVars, pageVars, envVars, fatal>>
    /\ UNCHANGED <<chanVars, crashVars, timeVars>>
    /\ UNCHANGED <<lifecycleEvents, subtreeLifecycleEvents, networkIdleTimers,
                   pendingDocument>>
    /\ UNCHANGED build

\* a request of a frame finishes: it is no longer in flight, the waiting timer
\* is reset
requestFinished(f) ==
    /\ Running
    /\ f \in frames
    /\ \E r \in inflightRequests[f] :
        /\ inflightRequests' = [inflightRequests EXCEPT ![f] = @ \ {r}]
        /\ last' = [op |-> "requestFinished", fid |-> f, request |-> r]
    /\ sent' = <<>>
    /\ UNCHANGED <<frameVars, ctxVars, sessionVars, pageVars, envVars, fatal>>
    /\ UNCHANGED <<chanVars, crashVars, timeVars>>
    /\ UNCHANGED <<lifecycleEvents, subtreeLifecycleEvents, networkIdleTimers,
                   pendingDocument>>
    /\ UNCHANGED build

\* the timer worker of a frame: LifeCycleNetworkIdleTimeout passed with no reset,
\* the worker calls frameLifecycleEvent(f, NetworkIdle) and ends
networkIdleTimeout(f) ==
    /\ Running
    /\ networkIdleTimers[f] > 0
    /\ LET r == frameLifecycleEvent(lifecycleEvents, subtreeLifecycleEvents, frames,
                                    parentFrame, f, LifecycleEventNetworkIdle)
       IN /\ lifecycleEvents' = r.own
          /\ subtreeLifecycleEvents' = r.sub
          /\ networkIdleTimers' = [networkIdleTimers EXCEPT ![f] = @ - 1]
          /\ last' = [op |-> "networkIdleTimeout", fid |-> f,
                      emits |-> lifecycleEmits(subtreeLifecycleEvents, r.sub)]
    /\ sent' = <<>>
    /\ UNCHANGED <<frameVars, ctxVars, sessionVars, pageVars, envVars, fatal>>
    /\ UNCHANGED <<chanVars, crashVars, timeVars>>
    /\ UNCHANGED <<inflightRequests, pendingDocument>>
    /\ UNCHANGED build

\* ------------------------------------------------------- construction
\* NewFrameSession (frame_session.go 85-152) as the sequence of steps it takes:
\* CDP commands and the calls it makes on the session, the frame manager and
\* the network manager. reply = TRUE: the step returns an error that is checked.
Step(kind, sid, name, reply, fid, parent) ==
    [kind |-> kind, sid |-> sid, cmd |-> name, reply |-> reply, fid |-> fid,
     parent |-> parent]

CDP(sid, name, reply) == Step("cdp", sid, name, reply, NoFrame, NoFrame)

Do(sid, name, reply) == Step("call", sid, name, reply, NoFrame, NoFrame)

When(cond, steps) == IF cond THEN steps ELSE <<>>

\* the browser context and page settings that change what initOptions sends
OptNames ==
    {"BypassCSP", "IgnoreHTTPSErrors", "HasTouch", "JavaScriptDisabled", "UserAgent",
     "Locale", "TimezoneID", "Geolocation", "ExtraHTTPHeaders", "Offline",
     "HttpCredentials", "EmulatedSize"}

OptionSets == {o \in SUBSET OptNames : Cardinality(o) <= MaxOptions}

localeInEffect == "Another locale override is already in effect"
timezoneInEffect == "Timezone override is already in effect"
panic == "panic: nil pointer dereference"
navigatedInitial == "onFrameNavigated(frame, true)"     \* 450

\* the reply of Page.getFrameTree: its root (the frame of the session's target),
\* the parent of every other frame of the tree and the order of siblings; nil
\* is the reply without a payload
ParentMaps(root) ==
    {p \in [FrameIds -> FrameIds \cup {NoFrame}] :
        /\ p[root] = NoFrame /\ p[MainFrame] = NoFrame
        /\ \A f \in FrameIds : p[f] # NoFrame => (p[f] = root \/ p[p[f]] # NoFrame)
        /\ \A S \in (SUBSET (FrameIds \ {root})) \ {{}} : \E f \in S : p[f] \notin S}

FrameTrees(root) ==
    LET siblings(p) == \E f, g \in FrameIds : f # g /\ p[f] # NoFrame /\ p[f] = p[g]
    IN UNION {{[nil |-> FALSE, root |-> root, par |-> p, rev |-> r] :
                    r \in IF siblings(p) THEN BOOLEAN ELSE {FALSE}} : p \in ParentMaps(root)}

NoTree == [nil |-> TRUE, root |-> NoFrame, par |-> [f \in FrameIds |-> NoFrame],
           rev |-> FALSE]

TreeFrames(tree) ==
    IF tree.nil THEN {} ELSE {tree.root} \cup {f \in FrameIds : tree.par[f] # NoFrame}

RECURSIVE ascending(_)
ascending(S) ==
    IF S = {} THEN <<>>
    ELSE LET m == CHOOSE x \in S : \A y \in S : x <= y
         IN <<m>> \o ascending(S \ {m})

RECURSIVE descending(_)
descending(S) ==
    IF S = {} THEN <<>>
    ELSE LET m == CHOOSE x \in S : \A y \in S : x >= y
         IN <<m>> \o descending(S \ {m})

\* frameTree.ChildFrames of the node f
ChildFrames(tree, f) ==
    LET kids == {g \in FrameIds : tree.par[g] = f}
    IN IF tree.rev THEN descending(kids) ELSE ascending(kids)

\* frame_session.go 443-457
RECURSIVE handleFrameTree(_, _, _)
RECURSIVE handleChildren(_, _, _)
handleFrameTree(sid, tree, f) ==
    When(tree.par[f] # NoFrame,
         <<Step("call", sid, "onFrameAttached", FALSE, f, tree.par[f])>>)
    \o <<Step("call", sid, navigatedInitial, FALSE, f, tree.par[f])>>
    \o handleChildren(sid, tree, ChildFrames(tree, f))

\* frame_session.go 454-456
handleChildren(sid, tree, kids) ==
    IF kids = <<>> THEN <<>>
    ELSE handleFrameTree(sid, tree, Head(kids)) \o handleChildren(sid, tree, Tail(kids))

\* frame_session.go 91-131: the struct, NewNetworkManager, GetWindowForTarget
newSteps(sid) ==
    << Do(sid, "NewNetworkManager", TRUE),
       CDP(sid, "Browser.getWindowForTarget", TRUE) >>

\* frame_session.go 195-258
initEventsSteps_rendererFirst(sid, isMain) ==
    << Do(sid, "Session.on(base)", FALSE),
       Do(sid, "initRendererEvents", FALSE),
       Do(sid, "go eventLoop", FALSE) >>

initEventsSteps(sid, isMain) ==
    << Do(sid, "Session.on(base)", FALSE) >>
    \o When(~isMain, << Do(sid, "initRendererEvents", FALSE) >>)
    \o << Do(sid, "go eventLoop", FALSE) >>

\* frame_session.go 260-287; seeds: the main session walks the reply
initFrameTreeSeeds_always(isMain) == TRUE

initFrameTreeSeeds(isMain) == isMain

initFrameTreeSteps(sid, isMain, tree) ==
    << CDP(sid, "Page.enable", TRUE),
       CDP(sid, "Page.getFrameTree", TRUE) >>
    \o When(initFrameTreeSeeds(isMain),
            IF tree.nil THEN << Do(sid, panic, FALSE) >>      \* 447: frameTree.Frame of nil
            ELSE handleFrameTree(sid, tree, tree.root)
                 \o << Do(sid, "initRendererEvents", FALSE) >>)

\* frame_session.go 305-310: the frames the isolated world is created in
isolatedWorldFrames_all(isMain, known, targetID) == ascending(known)

isolatedWorldFrames(isMain, known, targetID) ==
    IF isMain THEN ascending(known) ELSE <<getFrameByID(known, targetID)>>

\* frame_session.go 311-318; frame.ID() of a frame that getFrameByID did not find
RECURSIVE createIsolatedWorlds(_, _)
createIsolatedWorlds(sid, fs) ==
    IF fs = <<>> THEN <<>>
    ELSE IF Head(fs) = NoFrame THEN << Do(sid, panic, FALSE) >>
    ELSE << Step("cdp", sid, "Page.createIsolatedWorld", FALSE, Head(fs), NoFrame) >>
         \o createIsolatedWorlds(sid, Tail(fs))

\* frame_session.go 289-336; worldKnown: the name is in fs.isolatedWorlds (298)
initIsolatedWorldSteps(sid, isMain, worldKnown, known, targetID) ==
    << CDP(sid, "Page.setLifecycleEventsEnabled", TRUE) >>
    \o When(~worldKnown,
            createIsolatedWorlds(sid, isolatedWorldFrames(isMain, known, targetID))
            \o << CDP(sid, "Page.addScriptToEvaluateOnNewDocument", TRUE) >>)

\* frame_session.go 180-193
initDomainsSteps(sid) ==
    << CDP(sid, "DOM.enable", TRUE),
       CDP(sid, "Log.enable", TRUE),
       CDP(sid, "Runtime.enable", TRUE),
       CDP(sid, "Target.setAutoAttach", TRUE) >>

\* frame_session.go 338-410: the actions collected in optActions (346-368, 401)
\* are executed by the loop of 403-407, after everything that is sent while
\* initOptions runs (347, 371-389)
optActions_resumeFirst(sid, isMain, opts) ==
    << CDP(sid, "Runtime.runIfWaitingForDebugger", TRUE) >>
    \o When(isMain, << CDP(sid, "Emulation.setFocusEmulationEnabled", TRUE) >>)
    \o When("BypassCSP" \in opts, << CDP(sid, "Page.setBypassCSP", TRUE) >>)
    \o When("IgnoreHTTPSErrors" \in opts,
            << CDP(sid, "Security.setIgnoreCertificateErrors", TRUE) >>)
    \o When("HasTouch" \in opts, << CDP(sid, "Emulation.setTouchEmulationEnabled", TRUE) >>)
    \o When("JavaScriptDisabled" \in opts,
            << CDP(sid, "Emulation.setScriptExecutionDisabled", TRUE) >>)
    \o When("UserAgent" \in opts \/ "Locale" \in opts,
            << CDP(sid, "Emulation.setUserAgentOverride", TRUE) >>)

optActions(sid, isMain, opts) ==
    When(isMain, << CDP(sid, "Emulation.setFocusEmulationEnabled", TRUE) >>)
    \o When("BypassCSP" \in opts, << CDP(sid, "Page.setBypassCSP", TRUE) >>)
    \o When("IgnoreHTTPSErrors" \in opts,
            << CDP(sid, "Security.setIgnoreCertificateErrors", TRUE) >>)
    \o When("HasTouch" \in opts, << CDP(sid, "Emulation.setTouchEmulationEnabled", TRUE) >>)
    \o When("JavaScriptDisabled" \in opts,
            << CDP(sid, "Emulation.setScriptExecutionDisabled", TRUE) >>)
    \o When("UserAgent" \in opts \/ "Locale" \in opts,
            << CDP(sid, "Emulation.setUserAgentOverride", TRUE) >>)
    \o << CDP(sid, "Runtime.runIfWaitingForDebugger", TRUE) >>

\* frame_session.go 912-946
updateViewport(sid, opts) ==
    When("EmulatedSize" \in opts,
         << CDP(sid, "Emulation.setDeviceMetricsOverride", TRUE),
            CDP(sid, "Browser.setWindowBounds", TRUE) >>)

initOptionsSteps_inListedOrder(sid, isMain, opts) ==
    When(isMain, << CDP(sid, "Emulation.setFocusEmulationEnabled", TRUE) >>
                 \o updateViewport(sid, opts))
    \o SubSeq(optActions(sid, FALSE, opts), 1, Len(optActions(sid, FALSE, opts)) - 1)
    \o When("Locale" \in opts, << CDP(sid, "Emulation.setLocaleOverride", TRUE) >>)
    \o When("TimezoneID" \in opts, << CDP(sid, "Emulation.setTimezoneOverride", TRUE) >>)
    \o When("Geolocation" \in opts, << CDP(sid, "Emulation.setGeolocationOverride", TRUE) >>)
    \o When("ExtraHTTPHeaders" \in opts,
            << Do(sid, "NetworkManager.SetExtraHTTPHeaders", FALSE) >>)
    \o << Do(sid, "NetworkManager.setRequestInterception", TRUE) >>
    \o When("Offline" \in opts, << Do(sid, "NetworkManager.SetOfflineMode", FALSE) >>)
    \o When("HttpCredentials" \in opts, << Do(sid, "NetworkManager.Authenticate", FALSE) >>)
    \o << CDP(sid, "Emulation.setEmulatedMedia", TRUE) >>
    \o << CDP(sid, "Runtime.runIfWaitingForDebugger", TRUE) >>

initOptionsSteps(sid, isMain, opts) ==
    When(isMain, updateViewport(sid, opts))
    \o When("Locale" \in opts, << CDP(sid, "Emulation.setLocaleOverride", TRUE) >>)
    \o When("TimezoneID" \in opts, << CDP(sid, "Emulation.setTimezoneOverride", TRUE) >>)
    \o When("Geolocation" \in opts, << CDP(sid, "Emulation.setGeolocationOverride", TRUE) >>)
    \o When("ExtraHTTPHeaders" \in opts,
            << Do(sid, "NetworkManager.SetExtraHTTPHeaders", FALSE) >>)
    \o << Do(sid, "NetworkManager.setRequestInterception", TRUE) >>
    \o When("Offline" \in opts, << Do(sid, "NetworkManager.SetOfflineMode", FALSE) >>)
    \o When("HttpCredentials" \in opts, << Do(sid, "NetworkManager.Authenticate", FALSE) >>)
    \o << CDP(sid, "Emulation.setEmulatedMedia", TRUE) >>
    \o optActions(sid, isMain, opts)

\* the frame registry after the frame manager calls among the steps; err: a
\* frameNavigated that failed (596-600, fatal)
RECURSIVE seed(_, _, _)
seed(fr, par, steps) ==
    IF steps = <<>> THEN [frames |-> fr, parentFrame |-> par, err |-> FALSE]
    ELSE LET st == Head(steps)
         IN IF st.cmd = "onFrameAttached"
            THEN LET a == frameAttached(fr, par, st.fid, st.parent)
                 IN seed(a[1], a[2], Tail(steps))
            ELSE IF st.cmd = navigatedInitial
            THEN LET n == frameNavigated(fr, par, st.fid, st.parent)
                 IN IF n.err THEN n ELSE seed(n.frames, n.parentFrame, Tail(steps))
            ELSE seed(fr, par, Tail(steps))

\* frame_session.go 133-149 in the order of the calls
constructionSteps_domainsFirst(sid, isMain, targetID, tree, opts, worldKnown, fr, par) ==
    LET tr == initFrameTreeSteps(sid, isMain, tree)
    IN newSteps(sid) \o initEventsSteps(sid, isMain)
       \o << tr[1] >> \o initDomainsSteps(sid) \o SubSeq(tr, 2, Len(tr))
       \o initIsolatedWorldSteps(sid, isMain, worldKnown, seed(fr, par, tr).frames, targetID)
       \o initOptionsSteps(sid, isMain, opts)

constructionSteps(sid, isMain, targetID, tree, opts, worldKnown, fr, par) ==
    LET pre == newSteps(sid) \o initEventsSteps(sid, isMain)
               \o initFrameTreeSteps(sid, isMain, tree)
    IN pre
       \o initIsolatedWorldSteps(sid, isMain, worldKnown, seed(fr, par, pre).frames, targetID)
       \o initDomainsSteps(sid)
       \o initOptionsSteps(sid, isMain, opts)

Position(steps, name) ==
    IF \E i \in 1 .. Len(steps) : steps[i].cmd = name
    THEN CHOOSE i \in 1 .. Len(steps) :
            steps[i].cmd = name /\ \A j \in 1 .. (i - 1) : steps[j].cmd # name
    ELSE 0

\* the steps that return an error the constructor checks
awaitedSteps(steps) == {i \in 1 .. Len(steps) : steps[i].reply}

\* the errors the browser may answer a step with
stepCauses(step) ==
    IF step.cmd \in {"Emulation.setLocaleOverride", "Emulation.setTimezoneOverride"}
    THEN {otherError, localeInEffect, timezoneInEffect}
    ELSE {otherError}

\* frame_session.go 157-159, 168-170: the two errors taken as success
tolerated_anyCause(step, cause) ==
    step.cmd \in {"Emulation.setLocaleOverride", "Emulation.setTimezoneOverride"}

tolerated(step, cause) ==
    \/ step.cmd = "Emulation.setLocaleOverride" /\ cause = localeInEffect
    \/ step.cmd = "Emulation.setTimezoneOverride" /\ cause = timezoneInEffect

\* the steps taken until the constructor returns: all of them, or those up to
\* the first step that fails or panics
executedSteps_runOn(steps, failAt, cause) ==
    LET p == Position(steps, panic)
    IN SubSeq(steps, 1, IF p # 0 THEN p ELSE Len(steps))

executedSteps(steps, failAt, cause) ==
    LET p == Position(steps, panic)
        stop == IF failAt # 0 /\ ~tolerated(steps[failAt], cause) THEN failAt
                ELSE IF p # 0 THEN p ELSE Len(steps)
    IN SubSeq(steps, 1, stop)

\* the error the constructor returns for a step that failed: a CDP command's
\* error is wrapped (fmt.Errorf with %w), a network manager's is passed on
NoError == [msg |-> "", cause |-> ""]

returnedError(step, cause) ==
    IF step.kind = "cdp" THEN [msg |-> "unable to " \o step.cmd, cause |-> cause]
    ELSE [msg |-> "", cause |-> cause]

RECURSIVE cdpCmds(_)
cdpCmds(steps) ==
    IF steps = <<>> THEN <<>>
    ELSE (IF Head(steps).kind = "cdp"
          THEN << Cmd(Head(steps).sid, Head(steps).cmd, Head(steps).reply) >>
          ELSE <<>>) \o cdpCmds(Tail(steps))

\* the frames whose initial navigation the executed steps handled
navigatedFrames(done, fr) ==
    {done[i].fid : i \in {k \in 1 .. Len(done) : done[k].cmd = navigatedInitial}} \cap fr

\* NewFrameSession, frame_session.go 85-152, of the main session (no parent) or
\* of a child session of the main one
NewFrameSession(s) ==
    /\ Running
    /\ fsTarget[s] = NoFrame
    /\ IF s = MainSession THEN TRUE ELSE s = nextSid /\ MainSession \in loops
    /\ LET isMain == s = MainSession
       IN \E targetID \in IF isMain THEN {MainFrame} ELSE FrameIds \ {MainFrame},
             opts \in OptionSets, worldKnown \in BOOLEAN :
          \E tree \in {NoTree} \cup FrameTrees(targetID) :
            LET steps == constructionSteps(s, isMain, targetID, tree, opts, worldKnown,
                                           frames, parentFrame)
                reached == IF Position(steps, panic) = 0 THEN Len(steps)
                           ELSE Position(steps, panic)
                lifecycle == Position(steps, "Page.setLifecycleEventsEnabled")
            IN \E failAt \in {0} \cup {i \in awaitedSteps(steps) : i < reached} :
               \E cause \in IF failAt # 0 THEN stepCauses(steps[failAt]) ELSE {otherError} :
                 LET done == executedSteps(steps, failAt, cause)
                     reg == seed(frames, parentFrame, done)
                     panicked == Position(done, panic) # 0
                     err == failAt # 0 /\ ~tolerated(steps[failAt], cause)
                     \* 298: the check of the name is reached
                     checked == Len(done) > lifecycle
                 IN /\ worldKnown => checked
                    /\ frames' = reg.frames
                    /\ parentFrame' = reg.parentFrame
                    /\ fatal' = (panicked \/ reg.err)
                    /\ loops' = IF Position(done, "go eventLoop") # 0
                                THEN loops \cup {s} ELSE loops
                    /\ fsTarget' = [fsTarget EXCEPT ![s] = targetID]
                    /\ fsParent' = [fsParent EXCEPT ![s] =
                                       IF isMain THEN NoSession ELSE MainSession]
                    /\ nextSid' = IF isMain THEN nextSid ELSE nextSid + 1
                    \* 298-303: the name is in the set after the check
                    /\ isolatedWorlds' = [isolatedWorlds EXCEPT ![s] =
                           IF checked THEN @ \cup {utilityWorldName} ELSE @]
                    /\ sent' = cdpCmds(done)
                    /\ last' = [op |-> "NewFrameSession", s |-> s, isMain |-> isMain,
                                targetID |-> targetID, tree |-> tree, opts |-> opts,
                                worldKnown |-> worldKnown, failAt |-> failAt,
                                cause |-> cause, err |-> err, panicked |-> panicked,
                                error |-> IF err THEN returnedError(steps[failAt], cause)
                                          ELSE NoError,
                                fs |-> IF err \/ panicked THEN NoSession ELSE s,
                                steps |-> done, frames0 |-> frames]
                    /\ SetLife(seeded(Life, navigatedFrames(done, reg.frames),
                                      reg.frames, reg.parentFrame))
    /\ UNCHANGED <<nextFrame, executionContexts, contextIDToContext, nextCtx, pc, pending,
                   pageVars, envVars>>
    /\ UNCHANGED <<chanVars, crashVars, timeVars>>
    /\ UNCHANGED build

\* ------------------------------------------- construction, step by step
\* NewFrameSession (85-152) one step at a time, next to the event loop that it
\* starts (207) and to the browser, which emits the events of a domain once
\* the domain is enabled and delivers those the session has subscribed to.
\* build: s the session under construction, todo the steps not yet taken,
\* tree the reply of Page.getFrameTree, subs the event sets subscribed to,
\* enabled the CDP domains enabled, check the constructor is at 298, err it
\* has returned an error, browser the frames of the target in the browser.
NoBuild ==
    [s |-> NoSession, todo |-> <<>>, tree |-> NoTree, subs |-> {}, enabled |-> {},
     check |-> FALSE, err |-> FALSE, browser |-> {}]

\* events the browser emits to a session while and after it is constructed
MaxBuildEvents == 2

\* the browser settings of the constructions taken step by step: none set
BuildOpts == {}

\* frame_session.go 274: the reply describes the browser's frames of the target
snapshot(root, browserFrames) ==
    [nil |-> FALSE, root |-> root,
     par |-> [f \in FrameIds |-> IF f \in browserFrames \ {root} THEN root ELSE NoFrame],
     rev |-> FALSE]

\* frame_session.go 199-202, 416-436: the event set an event type belongs to
eventSet(type) == IF type = "targetCrashed" THEN "base" ELSE "renderer"

\* the CDP domain that reports the event type once it is enabled; the crash of
\* the target is reported without
domainOf(type) ==
    IF type = "targetCrashed" THEN ""
    ELSE IF type = "executionContextCreated" THEN "Runtime"
    ELSE "Page"

\* frame_session.go 202, 436: the event set a step subscribes the channel to
subscribes(cmd) ==
    IF cmd = "Session.on(base)" THEN {"base"}
    ELSE IF cmd = "initRendererEvents" THEN {"renderer"}
    ELSE {}

\* frame_session.go 183-186, 264: the domain a command enables
enables(cmd) ==
    IF cmd = "Page.enable" THEN {"Page"}
    ELSE IF cmd = "DOM.enable" THEN {"DOM"}
    ELSE IF cmd = "Log.enable" THEN {"Log"}
    ELSE IF cmd = "Runtime.enable" THEN {"Runtime"}
    ELSE {}

\* the browser reports events of the type to session s and s has subscribed
Delivers(s, type) ==
    /\ build.s = s
    /\ eventSet(type) \in build.subs
    /\ domainOf(type) \in build.enabled \cup {""}

\* the steps that follow the first step of the name
after(steps, name) == SubSeq(steps, Position(steps, name) + 1, Len(steps))

\* frame_session.go 133-149 for the reply and the check result known so far
Plan(s, tree, worldKnown) ==
    constructionSteps(s, s = MainSession, fsTarget[s], tree, BuildOpts, worldKnown,
                      frames, parentFrame)

\* frame_session.go 305-336 and what follows initIsolatedWorld: the frames of
\* 305-310 are the frames registered when the check of 298 has passed
resumed(s, worldKnown) ==
    LET world == Tail(initIsolatedWorldSteps(s, s = MainSession, worldKnown, frames,
                                             fsTarget[s]))
        lastWorld == IF worldKnown THEN "Page.setLifecycleEventsEnabled"
                     ELSE "Page.addScriptToEvaluateOnNewDocument"
    IN IF Position(world, panic) # 0 THEN world
       ELSE world \o after(Plan(s, build.tree, worldKnown), lastWorld)

\* the constructor takes its next step; a step whose error is checked may fail,
\* and the constructor returns the error
buildStep(s) ==
    /\ Running
    /\ build.s = s /\ build.todo # <<>> /\ ~build.check
    /\ LET st == Head(build.todo)
       IN \E ok \in IF st.reply THEN BOOLEAN ELSE {TRUE} :
            LET reg == seed(frames, parentFrame, <<st>>)
                tree == IF st.cmd = "Page.getFrameTree" /\ ok
                        THEN snapshot(fsTarget[s], build.browser) ELSE build.tree
                rest == IF ~ok \/ st.cmd = panic THEN <<>>
                        ELSE IF st.cmd = "Page.getFrameTree"
                        THEN after(Plan(s, tree, FALSE), st.cmd)
                        ELSE Tail(build.todo)
            IN /\ frames' = reg.frames
               /\ parentFrame' = reg.parentFrame
               /\ fatal' = (st.cmd = panic \/ reg.err)
               /\ loops' = IF st.cmd = "go eventLoop" THEN loops \cup {s} ELSE loops
               /\ build' = [build EXCEPT
                              !.todo = rest, !.tree = tree,
                              !.subs = @ \cup subscribes(st.cmd),
                              !.enabled = @ \cup (IF ok THEN enables(st.cmd) ELSE {}),
                              !.check = ok /\ st.cmd = "Page.setLifecycleEventsEnabled",
                              !.err = ~ok]
               /\ sent' = cdpCmds(<<st>>)
               /\ last' = [op |-> "step", s |-> s, step |-> st, ok |-> ok]
               /\ SetLife(seeded(Life, navigatedFrames(<<st>>, reg.frames),
                                 reg.frames, reg.parentFrame))
    /\ UNCHANGED <<nextFrame, ctxVars, fsTarget, fsParent, nextSid, pc, pending,
                   pageVars, envVars>>
    /\ UNCHANGED <<chanVars, crashVars, timeVars>>

\* frame_session.go 298-303: the read of fs.isolatedWorlds and the write
initIsolatedWorldCheck(s) ==
    /\ Running
    /\ build.s = s /\ build.check
    /\ LET worldKnown == utilityWorldName \in isolatedWorlds[s]
       IN /\ isolatedWorlds' = [isolatedWorlds EXCEPT ![s] = @ \cup {utilityWorldName}]
          /\ build' = [build EXCEPT !.check = FALSE, !.todo = resumed(s, worldKnown)]
          /\ last' = [op |-> "check", s |-> s, worldKnown |-> worldKnown]
    /\ sent' = <<>>
    /\ UNCHANGED <<frameVars, executionContexts, contextIDToContext, nextCtx, sessionVars,
                   pageVars, envVars, fatal>>
    /\ UNCHANGED <<chanVars, crashVars, timeVars, lifeVars>>

\* what the browser may do to the target of the session: attach a frame it
\* does not have under the target's frame, navigate or detach one it has, crash
BrowserEvents(s) ==
    LET root == fsTarget[s]
        kids == (build.browser \cap EventFrames) \ {root}
    IN {Event("targetCrashed", NoFrame, NoFrame)}
       \cup {Event("frameAttached", f, root) : f \in EventFrames \ (build.browser \cup {root})}
       \cup {Event("frameNavigated", f, root) : f \in kids}
       \cup {Event("frameDetached", f, NoFrame) : f \in kids}

\* the browser's frames after the event
browserAfter(fs, e) ==
    IF e.type = "frameAttached" THEN fs \cup {e.fid}
    ELSE IF e.type = "frameDetached" THEN fs \ {e.fid}
    ELSE fs

\* the browser changes the frames of the target and emits the event of the
\* change: it reaches the channel if the session has subscribed to it
browserEmits(s) ==
    /\ Running
    /\ build.s = s
    /\ emitted(SessionIds) < MaxBuildEvents
    /\ \E e \in BrowserEvents(s) :
        /\ domainOf(e.type) \in build.enabled \cup {""}
        /\ build' = [build EXCEPT !.browser = browserAfter(@, e)]
        /\ wire' = [wire EXCEPT ![s] = Append(@, e)]
        /\ eventCh' = [eventCh EXCEPT
                         ![s] = IF Delivers(s, e.type) THEN Append(@, e) ELSE @]
        /\ last' = [op |-> "browser", s |-> s, event |-> e,
                    delivered |-> Delivers(s, e.type)]
    /\ sent' = <<>>
    /\ UNCHANGED <<frameVars, ctxVars, sessionVars, pageVars, envVars, fatal, handled,
                   crashVars>>
    /\ UNCHANGED <<timeVars, lifeVars>>

\* Runtime.executionContextCreated of the world that 311-331 ask the browser
\* to create in the target's frame, delivered to the loop of the session; the first
\* context of the session
utilityContextCreated(s) ==
    /\ Delivers(s, "executionContextCreated")
    /\ nextCtx[s] = 1
    /\ onExecutionContextCreated(s)
    /\ last'.done => /\ last'.type = "isolated" /\ last'.name = utilityWorldName
                     /\ last'.fid = fsTarget[s]

\* ------------------------------------------------------------------- Init
Init ==
    /\ frames = {MainFrame}
    /\ parentFrame = [f \in FrameIds |-> NoFrame]
    /\ nextFrame = 1
    /\ executionContexts = [f \in FrameIds |-> NoSlots]
    /\ loops = {MainSession}
    /\ fsTarget = [s \in SessionIds |-> IF s = MainSession THEN MainFrame ELSE NoFrame]
    /\ fsParent = [s \in SessionIds |-> NoSession]
    /\ contextIDToContext = [s \in SessionIds |-> <<>>]
    /\ isolatedWorlds = [s \in SessionIds |-> IF s = MainSession THEN {utilityWorldName} ELSE {}]
    /\ nextCtx = [s \in SessionIds |-> 1]
    /\ nextSid = 1
    /\ frameSessions = [f \in FrameIds |-> NoSession]
    /\ workers = {}
    /\ pc = [s \in SessionIds |-> "idle"]
    /\ pending = [s \in SessionIds |-> NoPending]
    /\ build = NoBuild
    /\ connected = TRUE
    /\ ctxDone = FALSE
    /\ fatal = FALSE
    /\ wire = [s \in SessionIds |-> <<>>]
    /\ eventCh = [s \in SessionIds |-> <<>>]
    /\ handled = [s \in SessionIds |-> <<>>]
    /\ crashed = {}
    /\ didCrash = {}
    /\ initTime = [s \in SessionIds |-> zeroTime]
    /\ timestamps = NoEvents
    /\ lifecycleEvents = [f \in FrameIds |-> {}]
    /\ subtreeLifecycleEvents = [f \in FrameIds |-> {}]
    /\ inflightRequests = [f \in FrameIds |-> {}]
    /\ networkIdleTimers = initialLife(frames).timers
    /\ pendingDocument = [f \in FrameIds |-> ""]
    /\ sent = <<>>
    /\ last = [op |-> "init", s |-> NoSession]

Next ==
    \/ \E s \in SessionIds : onExecutionContextCreated(s)
    \/ \E s \in SessionIds : onExecutionContextDestroyed(s)
    \/ \E s \in SessionIds : onExecutionContextsCleared(s)
    \/ \E s \in SessionIds : onFrameAttached(s)
    \/ \E s \in SessionIds : onFrameDetached(s)
    \/ \E s \in SessionIds : onAttachedToTarget(s)
    \/ \E s \in SessionIds : onAttachedToTargetReturn(s)
    \/ \E s \in SessionIds : onDetachedFromTarget(s)
    \/ \E s \in SessionIds : loopExit(s)
    \/ \E s \in SessionIds : onFrameNavigated(s)
    \/ \E s \in SessionIds : onFrameRequestedNavigation(s)
    \/ \E s \in SessionIds : onFrameStoppedLoading(s)
    \/ \E s \in SessionIds : onPageLifecycle(s)
    \/ \E s \in SessionIds : onConsoleAPICalled(s)
    \/ \E s \in SessionIds : onLogEntryAdded(s)
    \/ \E f \in FrameIds : requestStarted(f)
    \/ \E f \in FrameIds : requestFinished(f)
    \/ \E f \in FrameIds : networkIdleTimeout(f)
    \/ Disconnect
    \/ Cancel

Spec == Init /\ [][Next]_vars

\* ------------------------------------------- the target-attach router alone
\* the main session and the sessions it attaches, with frame and target events
\* only (no execution-context event arrives)
NextTargets ==
    \/ \E s \in SessionIds : onFrameAttached(s)
    \/ \E s \in SessionIds : onFrameDetached(s)
    \/ \E s \in SessionIds : onAttachedToTarget(s)
    \/ \E s \in SessionIds : onAttachedToTargetReturn(s)
    \/ \E s \in SessionIds : onDetachedFromTarget(s)
    \/ \E s \in SessionIds : loopExit(s)
    \/ Disconnect
    \/ Cancel

SpecTargets == Init /\ [][NextTargets]_vars

\* --------------------------------- two sessions' execution contexts alone
\* The state Spec reaches by onFrameAttached (frame 1 under the main frame),
\* onAttachedToTarget (iframe target 1) and its successful return: the main
\* session and the child session of frame 1 share the frame registry.
InitContexts ==
    /\ frames = {MainFrame, 1}
    /\ parentFrame = [f \in FrameIds |-> IF f = 1 THEN MainFrame ELSE NoFrame]
    /\ nextFrame = 2
    /\ executionContexts = [f \in FrameIds |-> NoSlots]
    /\ loops = {MainSession, 1}
    /\ fsTarget = [s \in SessionIds |-> IF s = MainSession THEN MainFrame
                                         ELSE IF s = 1 THEN 1 ELSE NoFrame]
    /\ fsParent = [s \in SessionIds |-> IF s = 1 THEN MainSession ELSE NoSession]
    /\ contextIDToContext = [s \in SessionIds |-> <<>>]
    /\ isolatedWorlds = [s \in SessionIds |-> IF s \in {MainSession, 1}
                                               THEN {utilityWorldName} ELSE {}]
    /\ nextCtx = [s \in SessionIds |-> 1]
    /\ nextSid = 2
    /\ frameSessions = [f \in FrameIds |-> IF f = 1 THEN 1 ELSE NoSession]
    /\ workers = {}
    /\ pc = [s \in SessionIds |-> "idle"]
    /\ pending = [s \in SessionIds |-> NoPending]
    /\ build = NoBuild
    /\ connected = TRUE
    /\ ctxDone = FALSE
    /\ fatal = FALSE
    /\ wire = [s \in SessionIds |-> <<>>]
    /\ eventCh = [s \in SessionIds |-> <<>>]
    /\ handled = [s \in SessionIds |-> <<>>]
    /\ crashed = {}
    /\ didCrash = {}
    /\ initTime = [s \in SessionIds |-> zeroTime]
    /\ timestamps = NoEvents
    /\ lifecycleEvents = [f \in FrameIds |-> {}]
    /\ subtreeLifecycleEvents = [f \in FrameIds |-> {}]
    /\ inflightRequests = [f \in FrameIds |-> {}]
    /\ networkIdleTimers = initialLife(frames).timers
    /\ pendingDocument = [f \in FrameIds |-> ""]
    /\ sent = lateCmds(1, FALSE)
    /\ last = [op |-> "attachedReturn", s |-> MainSession, session |-> 1, targetID |-> 1,
               outcome |-> "ok", cause |-> otherError, err |-> FALSE, removed |-> {}]

NextContexts ==
    \/ \E s \in SessionIds : onExecutionContextCreated(s)
    \/ \E s \in SessionIds : onExecutionContextDestroyed(s)
    \/ \E s \in SessionIds : onExecutionContextsCleared(s)
    \/ \E s \in SessionIds : onFrameDetached(s)

SpecContexts == InitContexts /\ [][NextContexts]_vars

\* ------------------------------------- two sessions' event loops alone
\* the main session and the child session of frame 1, each fed by its event
\* channel, until the shared context is cancelled
NextEvents ==
    \/ \E s \in SessionIds : emit(s)
    \/ \E s \in SessionIds : eventLoop(s)
    \/ \E s \in SessionIds : onTargetCrashed(s)
    \/ \E s \in SessionIds : loopExit(s)
    \/ Cancel

SpecEvents == InitContexts /\ [][NextEvents]_vars

\* Go's select picks among its ready cases at random, so a ready ctx.Done case
\* is eventually taken; a handler that has been called returns
SpecEventsFair ==
    /\ SpecEvents
    /\ \A s \in SessionIds : WF_vars(loopExit(s))
    /\ \A s \in SessionIds : WF_vars(onTargetCrashed(s))

\* Construction of sessions: the page before its main session is constructed (no
\* reply yet), or a page whose main session has seeded the registry from a reply
InitConstruct ==
    \E tree \in {NoTree} \cup FrameTrees(MainFrame) :
        LET none == [f \in FrameIds |-> NoFrame]
            reg == IF tree.nil THEN [frames |-> {}, parentFrame |-> none, err |-> FALSE]
                   ELSE seed({}, none, handleFrameTree(MainSession, tree, tree.root))
        IN /\ frames = reg.frames
           /\ parentFrame = reg.parentFrame
           /\ nextFrame = MaxFrames
           /\ executionContexts = [f \in FrameIds |-> NoSlots]
           /\ loops = IF tree.nil THEN {} ELSE {MainSession}
           /\ fsTarget = [s \in SessionIds |->
                            IF s = MainSession /\ ~tree.nil THEN MainFrame ELSE NoFrame]
           /\ fsParent = [s \in SessionIds |-> NoSession]
           /\ contextIDToContext = [s \in SessionIds |-> <<>>]
           /\ isolatedWorlds = [s \in SessionIds |->
                                  IF s = MainSession /\ ~tree.nil
                                  THEN {utilityWorldName} ELSE {}]
           /\ nextCtx = [s \in SessionIds |-> 1]
           /\ nextSid = 1
           /\ frameSessions = [f \in FrameIds |-> NoSession]
           /\ workers = {}
           /\ pc = [s \in SessionIds |-> "idle"]
           /\ pending = [s \in SessionIds |-> NoPending]
           /\ build = NoBuild
           /\ connected = TRUE
           /\ ctxDone = FALSE
           /\ fatal = FALSE
           /\ wire = [s \in SessionIds |-> <<>>]
           /\ eventCh = [s \in SessionIds |-> <<>>]
           /\ handled = [s \in SessionIds |-> <<>>]
           /\ crashed = {}
           /\ didCrash = {}
           /\ initTime = [s \in SessionIds |-> zeroTime]
           /\ timestamps = NoEvents
           /\ lifecycleEvents = [f \in FrameIds |-> {}]
           /\ subtreeLifecycleEvents = [f \in FrameIds |-> {}]
           /\ inflightRequests = [f \in FrameIds |-> {}]
           /\ networkIdleTimers = initialLife(frames).timers
           /\ pendingDocument = [f \in FrameIds |-> ""]
           /\ sent = <<>>
           /\ last = [op |-> "init", s |-> NoSession]

\* one construction on each page: of its main session, or of a child session
\* of the constructed main session
NextConstruct == \E s \in SessionIds : last.op = "init" /\ NewFrameSession(s)

SpecConstruct == InitConstruct /\ [][NextConstruct]_vars

\* ------------------------------ one construction next to its event loop
\* a page whose main session is about to be constructed, or a page whose main
\* session handles the attachment of the iframe target 1 and is about to
\* construct the child session (757); the browser has any frames below the
\* target's frame
InitBuild ==
    \E s \in {MainSession, 1} : \E kids \in SUBSET (EventFrames \ {s}) :
        /\ frames = IF s = MainSession THEN {} ELSE {MainFrame, 1}
        /\ parentFrame = [f \in FrameIds |-> IF f = 1 /\ s = 1 THEN MainFrame ELSE NoFrame]
        /\ nextFrame = IF 2 \in kids THEN 3 ELSE IF 1 \in kids \/ s = 1 THEN 2 ELSE 1
        /\ executionContexts = [f \in FrameIds |-> NoSlots]
        /\ loops = IF s = MainSession THEN {} ELSE {MainSession}
        /\ fsTarget = [t \in SessionIds |-> IF t = MainSession THEN MainFrame
                                             ELSE IF t = s THEN 1 ELSE NoFrame]
        /\ fsParent = [t \in SessionIds |-> IF t = s /\ s # MainSession THEN MainSession
                                             ELSE NoSession]
        /\ contextIDToContext = [t \in SessionIds |-> <<>>]
        /\ isolatedWorlds = [t \in SessionIds |->
                               IF t = MainSession /\ s # MainSession
                               THEN {utilityWorldName} ELSE {}]
        /\ nextCtx = [t \in SessionIds |-> 1]
        /\ nextSid = IF s = MainSession THEN 1 ELSE 2
        /\ frameSessions = [f \in FrameIds |-> NoSession]
        /\ workers = {}
        /\ pc = [t \in SessionIds |-> IF t = MainSession /\ s # MainSession
                                       THEN "constructing" ELSE "idle"]
        /\ pending = [t \in SessionIds |->
                        IF t = MainSession /\ s # MainSession
                        THEN [target |-> 1, child |-> s, early |-> FALSE, removed |-> {}]
                        ELSE NoPending]
        /\ build = [NoBuild EXCEPT !.s = s, !.todo = Plan(s, NoTree, FALSE),
                                   !.browser = {fsTarget[s]} \cup kids]
        /\ connected = TRUE
        /\ ctxDone = FALSE
        /\ fatal = FALSE
        /\ wire = [t \in SessionIds |-> <<>>]
        /\ eventCh = [t \in SessionIds |-> <<>>]
        /\ handled = [t \in SessionIds |-> <<>>]
        /\ crashed = {}
        /\ didCrash = {}
        /\ initTime = [t \in SessionIds |-> zeroTime]
        /\ timestamps = NoEvents
        /\ lifecycleEvents = [f \in FrameIds |-> {}]
        /\ subtreeLifecycleEvents = [f \in FrameIds |-> {}]
        /\ inflightRequests = [f \in FrameIds |-> {}]
        /\ networkIdleTimers = initialLife(frames).timers
        /\ pendingDocument = [f \in FrameIds |-> ""]
        /\ sent = <<>>
        /\ last = [op |-> "init", s |-> NoSession]

\* the constructor, the browser and the loop of the session under construction
NextBuild ==
    \/ \E s \in SessionIds : buildStep(s)
    \/ \E s \in SessionIds : initIsolatedWorldCheck(s)
    \/ \E s \in SessionIds : browserEmits(s)
    \/ \E s \in SessionIds : build.s = s /\ eventLoop(s)
    \/ \E s \in SessionIds : build.s = s /\ onTargetCrashed(s)
    \/ \E s \in SessionIds : utilityContextCreated(s)

SpecBuild == InitBuild /\ [][NextBuild]_vars

\* ----------------------------------- two sessions' lifecycle events alone
\* Page.lifecycleEvent of the main session and of the child session of frame 1,
\* before and after the shared context is cancelled
NextPageLifecycle ==
    \/ \E s \in SessionIds : onPageLifecycle(s)
    \/ Cancel

SpecPageLifecycle == InitContexts /\ [][NextPageLifecycle]_vars

\* the same with every name the browser sends, load for the bits it sets
NextOtherLifecycle ==
    \/ \E s \in SessionIds :
          lifecycleEvent(s, OtherLifecycleNames \cup {"load"}, Timestamps)
    \/ Cancel

SpecOtherLifecycle == InitContexts /\ [][NextOtherLifecycle]_vars

\* ------------------------- diagnostic, navigation and context events alone
NextHandlers ==
    \/ \E s \in SessionIds : onConsoleAPICalled(s)
    \/ \E s \in SessionIds : onLogEntryAdded(s)
    \/ \E s \in SessionIds : onFrameRequestedNavigation(s)
    \/ \E s \in SessionIds : onFrameNavigated(s)

SpecHandlers == InitContexts /\ [][NextHandlers]_vars

\* the same with the execution contexts of the child session
NextEscalation ==
    \/ NextHandlers
    \/ \E s \in SessionIds : s # MainSession /\ onExecutionContextCreated(s)

SpecEscalation == InitContexts /\ [][NextEscalation]_vars

\* ------------------------------------------ the lifecycle of the frame tree
\* the main session's events of the frames of the registry: frames attach,
\* navigate, stop loading, reach lifecycle events and detach, timers time out;
\* the lifecycle events are the two that set a bit, at one time
NextLifecycle ==
    \/ onFrameAttached(MainSession)
    \/ onFrameDetached(MainSession)
    \/ onFrameNavigated(MainSession)
    \/ onFrameStoppedLoading(MainSession)
    \/ lifecycleEvent(MainSession, {"load", "DOMContentLoaded"}, {MaxTime})
    \/ \E f \in FrameIds : networkIdleTimeout(f)

SpecLifecycle == InitContexts /\ [][NextLifecycle]_vars

\* ------------------------------------------------ the network-idle timers
\* the main frame and its child navigate, their requests start and finish,
\* their timers time out, the child is detached
NextTimers ==
    \/ onFrameDetached(MainSession)
    \/ onFrameNavigated(MainSession)
    \/ \E f \in FrameIds : requestStarted(f)
    \/ \E f \in FrameIds : requestFinished(f)
    \/ \E f \in FrameIds : networkIdleTimeout(f)

SpecTimers == InitContexts /\ [][NextTimers]_vars

\* a timer worker that waits and is not reset times out: time passes
SpecTimersFair ==
    /\ SpecTimers
    /\ \A f \in FrameIds : WF_vars(networkIdleTimeout(f))

\* ================================================================== claims
Worlds == {mainExecutionContext, utilityExecutionContext}

CreatedStep == last'.op = "created" /\ last'.done

\* the context a created step has made
CreatedContext(l) == [sid |-> l.s, id |-> l.id,
                      frame |-> IF l.fid \in frames THEN l.fid ELSE NoFrame]

\* a non-default context named with the utility world name, for a registered frame
UtilityNamed(l) == ~l.isDefault /\ l.name = utilityWorldName /\ l.fid \in frames

UndoneIsolated ==
    /\ last.op = "destroyed"
    /\ last.prev.op = "created"
    /\ last.prev.type = "isolated"

AttachedStep == last'.op = "attached"

\* C8: for an iframe target with a url whose id is a registered frame,
\* onAttachedToTarget first removes the frame's descendants, then constructs the
\* child FrameSession with this session as parent, and registers it with the
\* page only once construction has succeeded; no descendant present before the
\* event is registered afterwards.
C8_IframeAttachOrder ==
    [][/\ (AttachedStep /\ last'.type = "iframe" /\ last'.url # ""
           /\ last'.targetID \in frames) =>
             LET t == last'.targetID
                 c == last'.session
                 gone == descendants(frames, parentFrame, t)
             IN /\ last'.route = "iframe"
                /\ frames' = frames \ gone
                /\ t \in frames'
                /\ frameSessions' = frameSessions
                /\ pc'[last'.s] = "constructing"
                /\ pending'[last'.s].target = t
                /\ pending'[last'.s].child = c
                /\ pending'[last'.s].removed = gone
                /\ fsParent'[c] = last'.s
                /\ fsTarget'[c] = t
       /\ last'.op = "attachedReturn" =>
             /\ pc[last'.s] = "constructing"
             /\ pending[last'.s].child = last'.session
             /\ last'.removed \cap frames' = {}
             /\ frameSessions' =
                   IF last'.outcome = "ok"
                   THEN [frameSessions EXCEPT ![last'.targetID] = last'.session]
                   ELSE frameSessions
       /\ frameSessions' # frameSessions =>
             (last'.op = "attachedReturn" /\ last'.outcome = "ok")
       /\ \A s \in SessionIds : pc[s] = "constructing"
             => pending[s].removed \cap frames = {}
      ]_vars

C8_Witness ==
    /\ last.op = "attachedReturn"
    /\ last.outcome = "ok"
    /\ last.removed # {}
    /\ last.removed \cap frames = {}
    /\ frameSessions[last.targetID] = last.session
    /\ fsParent[last.session] = last.s

\* the state the program itself keeps (not the browser's counters, the command
\* log or the record of the last handler)
programVars == <<frames, parentFrame, executionContexts, loops, fsTarget, fsParent,
                 contextIDToContext, isolatedWorlds, frameSessions, workers, pc,
                 pending, fatal>>

\* C9: Target.attachedToTarget for an iframe with a url whose target id is no
\* registered frame is a no-op: no frame removed, no child session constructed
\* or registered, no worker recorded, no command sent.
C9_UnknownIframeNoOp ==
    [][(AttachedStep /\ last'.type = "iframe" /\ last'.url # ""
        /\ last'.targetID \notin frames) =>
            /\ UNCHANGED programVars
            /\ sent' = <<>>
      ]_vars

C9_Witness ==
    /\ last.op = "attached"
    /\ last.type = "iframe" /\ last.url # ""
    /\ last.targetID \notin frames
    /\ last.route = "unknownFrame"
    /\ sent = <<>>
    /\ nextFrame > 1

\* C10: for a target that is neither an iframe with a url nor a worker, the
\* handler sends Runtime.runIfWaitingForDebugger and then Target.detachFromTarget
\* on the new session, neither awaiting a reply, and creates no child
\* FrameSession and no worker record.
C10_OtherTargetsDetached ==
    [][(AttachedStep /\ last'.type # "worker"
        /\ ~(last'.type = "iframe" /\ last'.url # "")) =>
            /\ sent' = << [sid |-> last'.session, cmd |-> "Runtime.runIfWaitingForDebugger",
                           reply |-> FALSE],
                          [sid |-> last'.session, cmd |-> "Target.detachFromTarget",
                           reply |-> FALSE] >>
            /\ UNCHANGED programVars
      ]_vars

C10_Witness ==
    /\ last.op = "attached"
    /\ last.type = "iframe" /\ last.url = ""
    /\ last.targetID \in frames
    /\ last.route = "other"
    /\ Len(sent) = 2
    /\ frameSessions[last.targetID] = NoSession

\* a construction started by onAttachedToTarget has returned an error: the child
\* FrameSession (758) or the Worker (795)
ConstructionFailed ==
    /\ \/ last'.op = "attachedReturn"
       \/ AttachedStep /\ last'.route = "worker"
    /\ last'.err

\* C11: a failed construction of a child FrameSession or of a Worker is
\* suppressed when the browser is disconnected and the error is the abnormal
\* closure; otherwise it is suppressed when the session's context is cancelled;
\* otherwise it is fatal. A suppressed failure registers nothing.
C11_ErrorPriority ==
    [][ConstructionFailed =>
          LET suppress == \/ ~connected /\ last'.cause = abnormalClosure
                          \/ ctxDone
          IN /\ fatal' = ~suppress
             /\ frameSessions' = frameSessions
             /\ workers' = workers
       ]_vars

C11_Witness ==
    /\ last.op = "attachedReturn" /\ last.err
    /\ last.cause = otherError
    /\ connected /\ ctxDone
    /\ ~fatal
    /\ frameSessions[last.targetID] = NoSession

\* C12 as stated: an abnormal closure (1006) during child session construction
\* is suppressed if the browser is not connected and fatal whenever the browser
\* is still connected.
C12_ClosureFatalWhenConnected ==
    [][(last'.op = "attachedReturn" /\ last'.err /\ last'.cause = abnormalClosure)
          => fatal' = connected
       ]_vars

\* C12 amended: with the browser still connected the abnormal closure is fatal
\* unless the session's context is cancelled, which suppresses it as well.
C12_ClosureFatalUnlessCancelled ==
    [][(last'.op = "attachedReturn" /\ last'.err /\ last'.cause = abnormalClosure)
          => fatal' = (connected /\ ~ctxDone)
       ]_vars

C12_Witness ==
    /\ last.op = "attachedReturn" /\ last.err
    /\ last.cause = abnormalClosure
    /\ connected /\ ~ctxDone
    /\ fatal

CrashEvent == Event("targetCrashed", NoFrame, NoFrame)

\* C13: on Inspector.targetCrashed, in the main session as in a child session,
\* the Session is marked as crashed and then the Page is notified: the Page is
\* never notified by a session that is not yet marked, and once the handler has
\* returned both have happened.
C13_CrashMarkedThenNotified ==
    /\ didCrash \subseteq crashed
    /\ \A s \in SessionIds :
          (\E k \in 1 .. Len(handled[s]) : handled[s][k] = CrashEvent)
             => s \in crashed /\ s \in didCrash

C13_Witness ==
    /\ MainSession \in didCrash
    /\ \E s \in SessionIds : s # MainSession /\ s \in didCrash /\ fsParent[s] = MainSession
    /\ \E s \in SessionIds : pc[s] = "idle" /\ handled[s] # <<>>
                              /\ handled[s][Len(handled[s])] = CrashEvent

\* C14: once the cancellation context is signalled, the event loop of a
\* FrameSession eventually exits (or the run has ended in a fatal error),
\* whether or not events are still waiting on its channel.
C14_CancelledLoopExits ==
    \A s \in SessionIds : (ctxDone /\ s \in loops) ~> (s \notin loops \/ fatal)

C14_Witness ==
    /\ last.op = "loopExit"
    /\ ctxDone
    /\ last.s \notin loops
    /\ eventCh[last.s] # <<>>
    /\ \E s \in SessionIds : s # last.s /\ s \notin loops /\ fsTarget[s] # NoFrame
                              /\ eventCh[s] = <<>>

\* C15: when a FrameSession is cancelled its event channel is drained or
\* closed: once the dispatch loop has exited no event is left on the channel
\* with its producer waiting to send it.
C15_CancelledChannelReleased ==
    \A s \in SessionIds :
        (ctxDone /\ fsTarget[s] # NoFrame /\ s \notin loops) => eventCh[s] = <<>>

\* the events of session s that a handler has been called for
received(s) == IF pc[s] = "crashing" THEN Append(handled[s], CrashEvent) ELSE handled[s]

\* C16: within one FrameSession the events are handled by a single consumer in
\* the order they were sent to the channel, each handler returning before the
\* next event is received; a frameDetached is never handled before a
\* frameNavigated for the same frame id that was emitted earlier.
C16_HandledInOrder ==
    \A s \in SessionIds :
        /\ Len(handled[s]) <= Len(wire[s])
        /\ \A k \in 1 .. Len(handled[s]) : handled[s][k] = wire[s][k]
        /\ ~fatal => received(s) \o eventCh[s] = wire[s]
        /\ \A i \in 1 .. Len(wire[s]), j \in 1 .. Len(handled[s]) :
              (/\ i < j
               /\ wire[s][i].type = "frameNavigated"
               /\ handled[s][j].type = "frameDetached"
               /\ wire[s][i].fid = handled[s][j].fid)
                 => i <= Len(handled[s]) /\ handled[s][i] = wire[s][i]

C16_Witness ==
    \E s \in SessionIds :
        /\ Len(handled[s]) = 3
        /\ handled[s][1] = CrashEvent
        /\ handled[s][2].type = "frameNavigated"
        /\ handled[s][3].type = "frameDetached"
        /\ handled[s][3].fid = handled[s][2].fid

\* ---- construction order
Constructed == last.op = "NewFrameSession"

\* where b is among the steps, a is too, and earlier
Precedes(steps, a, b) ==
    Position(steps, b) # 0 => (Position(steps, a) # 0 /\ Position(steps, a) < Position(steps, b))

Places(steps, names) == {i \in 1 .. Len(steps) : steps[i].cmd \in names}

LaterDomains == {"DOM.enable", "Log.enable", "Runtime.enable", "Target.setAutoAttach"}
SeedingCalls == {"onFrameAttached", navigatedInitial}
WorldCmds == {"Page.createIsolatedWorld", "Page.addScriptToEvaluateOnNewDocument"}

\* C17 as stated: in every construction the domains Page, DOM, Log and Runtime are
\* enabled and Target.setAutoAttach is set before Page.getFrameTree is sent, and
\* the frame tree is seeded before lifecycle events are enabled and isolated
\* worlds are created
C17_DomainsBeforeSeeding ==
    Constructed =>
        /\ \A d \in {"Page.enable"} \cup LaterDomains :
              Precedes(last.steps, d, "Page.getFrameTree")
        /\ Precedes(last.steps, "Page.getFrameTree", "Page.setLifecycleEventsEnabled")
        /\ \A i \in Places(last.steps, SeedingCalls \cup WorldCmds) :
              Position(last.steps, "Page.getFrameTree") \in 1 .. (i - 1)
        /\ \A i \in Places(last.steps, SeedingCalls), j \in Places(last.steps, WorldCmds) :
              i < j

\* C17 (amended): in every construction the Page domain is enabled before the
\* frame tree is seeded from Page.getFrameTree, the seeding happens before
\* lifecycle events are enabled and isolated worlds are created, and only after
\* that DOM, Log and Runtime are enabled and Target.setAutoAttach is set
C17_PageSeedingWorldsDomains ==
    Constructed =>
        /\ Precedes(last.steps, "Page.enable", "Page.getFrameTree")
        /\ Precedes(last.steps, "Page.getFrameTree", "Page.setLifecycleEventsEnabled")
        /\ \A i \in Places(last.steps, SeedingCalls) :
              /\ Position(last.steps, "Page.getFrameTree") \in 1 .. (i - 1)
              /\ \A j \in Places(last.steps, {"Page.setLifecycleEventsEnabled"} \cup WorldCmds) :
                    i < j
        /\ \A j \in Places(last.steps, WorldCmds) :
              Position(last.steps, "Page.setLifecycleEventsEnabled") \in 1 .. (j - 1)
        /\ \A k \in Places(last.steps, LaterDomains) :
              /\ Position(last.steps, "Page.setLifecycleEventsEnabled") \in 1 .. (k - 1)
              /\ \A j \in Places(last.steps, SeedingCalls \cup WorldCmds) : j < k

\* a main session constructed without error from a reply of several frames
C17_Witness ==
    /\ Constructed /\ last.isMain /\ ~last.err /\ ~last.panicked
    /\ Cardinality(TreeFrames(last.tree)) >= 2
    /\ Places(last.steps, LaterDomains) # {}
    /\ Places(last.steps, WorldCmds) # {}

\* ---- seeding of the frame tree
\* the reply of Page.getFrameTree has arrived, with a payload
ReplyArrived ==
    /\ Constructed /\ ~last.tree.nil
    /\ Position(last.steps, "Page.getFrameTree") # 0
    /\ last.failAt # Position(last.steps, "Page.getFrameTree")

Navigated(steps, f) == {i \in Places(steps, {navigatedInitial}) : steps[i].fid = f}

Attached(steps, f) == {i \in Places(steps, {"onFrameAttached"}) : steps[i].fid = f}

\* the walk of handleFrameTree over the reply, as the claim describes it
SeededDepthFirst(steps, tree) ==
    /\ \A i \in Places(steps, SeedingCalls) : steps[i].fid \in TreeFrames(tree)
    /\ \A f \in TreeFrames(tree) :
          /\ Cardinality(Navigated(steps, f)) = 1
          /\ IF f = tree.root THEN Attached(steps, f) = {}
             ELSE /\ Cardinality(Attached(steps, f)) = 1
                  /\ \A i \in Navigated(steps, f) :
                        /\ steps[i - 1].cmd = "onFrameAttached"
                        /\ steps[i - 1].fid = f
                        /\ steps[i - 1].parent = tree.par[f]
                  \* the parent is processed before the child
                  /\ \A i \in Attached(steps, f), j \in Navigated(steps, tree.par[f]) : j < i
    \* depth-first: the frames navigated between a frame and one of its
    \* descendants are descendants of it, too
    /\ \A i, j, k \in Places(steps, {navigatedInitial}) :
          (i < j /\ j < k /\ steps[i].fid \in ancestors(tree.par, steps[k].fid))
             => steps[i].fid \in ancestors(tree.par, steps[j].fid)

\* C18 as stated: the construction of any FrameSession, main or child, seeds
\* the frame tree from the Page.getFrameTree reply depth-first
C18_EverySessionSeeds ==
    ReplyArrived => SeededDepthFirst(last.steps, last.tree)

\* C18 (amended): the construction of the main FrameSession seeds the frame
\* tree from the Page.getFrameTree reply depth-first (one frameNavigated with
\* initial=true per frame, frameAttached immediately before it for a non-root
\* frame, a parent before its children); the construction of a child
\* FrameSession makes no seeding call
C18_MainSessionSeeds ==
    /\ (ReplyArrived /\ last.isMain) => SeededDepthFirst(last.steps, last.tree)
    /\ (Constructed /\ ~last.isMain) => Places(last.steps, SeedingCalls) = {}

\* the main session has walked a reply in which a frame has two children, the
\* second one first
C18_Witness ==
    /\ ReplyArrived /\ last.isMain /\ last.tree.rev
    /\ Cardinality(TreeFrames(last.tree)) = MaxFrames
    /\ frames = TreeFrames(last.tree)

\* ---- isolated worlds
\* Page.setLifecycleEventsEnabled has been sent and has not failed
LifecycleEnabled ==
    /\ Constructed
    /\ Position(last.steps, "Page.setLifecycleEventsEnabled") # 0
    /\ last.failAt # Position(last.steps, "Page.setLifecycleEventsEnabled")

WorldsCreated(steps, f) == {i \in Places(steps, {"Page.createIsolatedWorld"}) : steps[i].fid = f}

\* one fire-and-forget Page.createIsolatedWorld for each frame of the set and for
\* no other frame, after lifecycle events are enabled, and then one
\* Page.addScriptToEvaluateOnNewDocument
WorldsIssuedFor(steps, fs) ==
    /\ \A f \in FrameIds : Cardinality(WorldsCreated(steps, f)) = IF f \in fs THEN 1 ELSE 0
    /\ \A i \in Places(steps, {"Page.createIsolatedWorld"}) :
          /\ steps[i].kind = "cdp" /\ ~steps[i].reply
          /\ Position(steps, "Page.setLifecycleEventsEnabled") < i
          /\ i < Position(steps, "Page.addScriptToEvaluateOnNewDocument")
    /\ Cardinality(Places(steps, {"Page.addScriptToEvaluateOnNewDocument"})) = 1

InOrder(steps, names) ==
    LET listed(st) == \E k \in 1 .. Len(names) : names[k] = st.cmd
        place(st) == CHOOSE k \in 1 .. Len(names) : names[k] = st.cmd
        sel == SelectSeq(steps, listed)
    IN \A a, b \in 1 .. Len(sel) : a < b => place(sel[a]) < place(sel[b])

MainOnlyCmds ==
    {"Emulation.setFocusEmulationEnabled", "Emulation.setDeviceMetricsOverride",
     "Browser.setWindowBounds"}

\* the order of section 4.1, step 7
ListedOrder ==
    << "Emulation.setFocusEmulationEnabled", "Emulation.setDeviceMetricsOverride",
       "Browser.setWindowBounds",
       "Page.setBypassCSP", "Security.setIgnoreCertificateErrors",
       "Emulation.setTouchEmulationEnabled", "Emulation.setScriptExecutionDisabled",
       "Emulation.setUserAgentOverride", "Emulation.setLocaleOverride",
       "Emulation.setTimezoneOverride", "Emulation.setGeolocationOverride",
       "NetworkManager.SetExtraHTTPHeaders", "NetworkManager.setRequestInterception",
       "NetworkManager.SetOfflineMode", "NetworkManager.Authenticate",
       "Emulation.setEmulatedMedia" >>

\* the order in which initOptions sends
SendOrder ==
    << "Emulation.setDeviceMetricsOverride", "Browser.setWindowBounds",
       "Emulation.setLocaleOverride", "Emulation.setTimezoneOverride",
       "Emulation.setGeolocationOverride",
       "NetworkManager.SetExtraHTTPHeaders", "NetworkManager.setRequestInterception",
       "NetworkManager.SetOfflineMode", "NetworkManager.Authenticate",
       "Emulation.setEmulatedMedia",
       "Emulation.setFocusEmulationEnabled",
       "Page.setBypassCSP", "Security.setIgnoreCertificateErrors",
       "Emulation.setTouchEmulationEnabled", "Emulation.setScriptExecutionDisabled",
       "Emulation.setUserAgentOverride" >>

\* C20 as stated: the emulation commands are sent in the listed order: (main
\* only) focus emulation, viewport, window bounds; then bypass CSP, ignore HTTPS
\* errors, touch, disable-JS, user agent, locale, timezone, geolocation; then
\* extra HTTP headers, request interception, offline mode, credentials and
\* emulated media
C20_SentInListedOrder ==
    Constructed =>
        /\ InOrder(last.steps, ListedOrder)
        /\ (~last.isMain => Places(last.steps, MainOnlyCmds) = {})

\* C20 (amended): the emulation commands are sent in this order: (main only)
\* viewport, window bounds; then locale, timezone, geolocation; then extra HTTP
\* headers, request interception, offline mode, credentials and emulated media;
\* then (main only) focus emulation; then bypass CSP, ignore HTTPS errors,
\* touch, disable-JS and user agent; each at most once
C20_SentInSendOrder ==
    Constructed =>
        /\ InOrder(last.steps, SendOrder)
        /\ (~last.isMain => Places(last.steps, MainOnlyCmds) = {})

\* a main session constructed without error with an emulated size and CSP bypass
C20_Witness ==
    /\ Constructed /\ last.isMain /\ ~last.err /\ ~last.panicked
    /\ last.opts = {"EmulatedSize", "BypassCSP"}
    /\ Places(last.steps, {"Browser.setWindowBounds"}) # {}
    /\ Places(last.steps, {"Page.setBypassCSP"}) # {}
    /\ Places(last.steps, {"Emulation.setEmulatedMedia"}) # {}

\* ---- end of the construction, errors
resume == "Runtime.runIfWaitingForDebugger"

\* the constructor has returned a FrameSession
Succeeded == Constructed /\ ~last.err /\ ~last.panicked

\* the awaited step i has returned an error to the constructor
StepFailed(i) == last.failAt = i /\ ~tolerated(last.steps[i], last.cause)

\* C21: Runtime.runIfWaitingForDebugger is the last CDP command of a successful
\* construction; it is issued only if every awaited step before it has
\* succeeded, so a construction that has failed earlier never issues it
C21_ResumeLastAndOnlyOnSuccess ==
    Constructed =>
        /\ Succeeded => /\ sent # <<>>
                        /\ sent[Len(sent)].cmd = resume
                        /\ last.steps[Len(last.steps)].cmd = resume
        /\ Cardinality(Places(last.steps, {resume})) <= 1
        /\ \A i \in Places(last.steps, {resume}) :
              /\ i = Len(last.steps)
              /\ \A j \in 1 .. (i - 1) : ~StepFailed(j)
        /\ (last.panicked \/ (last.err /\ last.steps[Len(last.steps)].cmd # resume))
              => Places(last.steps, {resume}) = {}

\* a main session constructed without error with two options set: the resume
\* command ends a sequence with optional commands before it
C21_Witness ==
    /\ Succeeded /\ last.isMain
    /\ Cardinality(last.opts) = MaxOptions
    /\ Len(sent) > 12
    /\ sent[Len(sent)].cmd = resume

Overrides == {"Emulation.setLocaleOverride", "Emulation.setTimezoneOverride"}

\* the browser has answered the locale or timezone override with an error
OverrideFailed ==
    /\ Constructed /\ last.failAt # 0
    /\ last.steps[last.failAt].cmd \in Overrides

\* the error is the "already in effect" error of that override
OwnInEffect ==
    \/ last.steps[last.failAt].cmd = "Emulation.setLocaleOverride" /\ last.cause = localeInEffect
    \/ last.steps[last.failAt].cmd = "Emulation.setTimezoneOverride"
       /\ last.cause = timezoneInEffect

\* C22: a locale or timezone override that fails with its "override is already
\* in effect" error is taken as success and the construction goes on with the
\* next step, to its end; with any other error of the two commands the
\* construction fails at that command
C22_InEffectTolerated ==
    OverrideFailed =>
        IF OwnInEffect
        THEN /\ ~last.err
             /\ Len(last.steps) > last.failAt
             /\ last.steps[Len(last.steps)].cmd = resume
        ELSE /\ last.err
             /\ Len(last.steps) = last.failAt

\* the timezone override of a construction with a locale, too, is answered
\* "already in effect", and the construction succeeds
C22_Witness ==
    /\ OverrideFailed /\ OwnInEffect /\ Succeeded
    /\ last.opts = {"Locale", "TimezoneID"}
    /\ last.steps[last.failAt].cmd = "Emulation.setTimezoneOverride"
    /\ last.steps[last.failAt + 1].cmd = "NetworkManager.setRequestInterception"

\* an awaited CDP command of the construction has failed (a failure that is not
\* the tolerated answer to a locale or timezone override)
CommandFailed ==
    /\ Constructed /\ last.failAt # 0
    /\ last.steps[last.failAt].kind = "cdp"
    /\ ~(OverrideFailed /\ OwnInEffect)

\* C23: if Browser.getWindowForTarget or a later awaited CDP command fails,
\* NewFrameSession returns an error that wraps the cause, returns no
\* FrameSession, and executes none of the steps that follow the command
C23_FailureStopsConstruction ==
    CommandFailed =>
        /\ last.err
        /\ last.error.cause = last.cause /\ last.error.msg # ""
        /\ last.fs = NoSession
        /\ Len(last.steps) = last.failAt
        /\ Places(last.steps, {resume}) \subseteq {last.failAt}

\* Runtime.enable fails in the construction of the main session: the frame tree
\* is seeded and the event loop runs, but Target.setAutoAttach is never sent
C23_Witness ==
    /\ CommandFailed /\ last.isMain
    /\ last.steps[last.failAt].cmd = "Runtime.enable"
    /\ last.err /\ last.fs = NoSession
    /\ frames # {} /\ MainSession \in loops
    /\ Places(last.steps, {"Target.setAutoAttach"}) = {}

\* the severity the specification names for a level or call type
NamedSeverity(level) ==
    IF level \in {"log", "info"} THEN "Info"
    ELSE IF level = "warning" THEN "Warn"
    ELSE IF level = "error" THEN "Error"
    ELSE "Debug"

\* C30: Log.entryAdded and Runtime.consoleAPICalled map the entry level / call
\* type to the logger severity by one function: log or info to Info, warning to
\* Warn, error to Error, anything else to Debug.
C30_OneSeverityMapping ==
    last.op \in {"consoleAPICalled", "logEntryAdded"}
        => last.severity = NamedSeverity(last.level)

\* the child session logged a console call of type log as Info
C30_Witness ==
    /\ last.op = "consoleAPICalled" /\ last.s # MainSession
    /\ last.level = "log" /\ last.severity = "Info"

\* C25: a Page.frameRequestedNavigation event calls the frame manager's
\* frameRequestedNavigation if and only if its disposition is currentTab; with
\* any other disposition the handler changes no state.
C25_OnlyCurrentTabNavigates ==
    [][last'.op = "frameRequestedNavigation"
         => /\ last'.called = (last'.disposition = "currentTab")
            /\ last'.disposition # "currentTab"
                 => UNCHANGED <<programVars, timeVars, lifeVars, envVars, chanVars,
                                crashVars>>]_vars

\* a requested navigation in the current tab became the pending document of a
\* frame that had another one
C25_Witness ==
    /\ last.op = "frameRequestedNavigation" /\ last.disposition = "currentTab"
    /\ last.called /\ ~last.err
    /\ pendingDocument[last.fid] = last.url
    /\ \E f \in frames \ {last.fid} : pendingDocument[f] \notin {"", last.url}

\* the lifecycle event handled last was a load or DOMContentLoaded of a frame of
\* the registry
LoadHandled ==
    /\ last.op = "lifecycleEvent" /\ last.known
    /\ last.name \in {"load", "DOMContentLoaded"}

\* the metric the specification names for load and DOMContentLoaded
NamedMetric(name) == IF name = "load" THEN "BrowserLoaded" ELSE "BrowserDOMContentLoaded"

\* the lifecycle bit the specification names for load and DOMContentLoaded
NamedBit(name) ==
    IF name = "load" THEN LifecycleEventLoad ELSE LifecycleEventDOMContentLoad

\* exactly one sample of the named metric was emitted, its value the event's
\* timestamp minus the timestamp of the session's most recent init or commit
OneSample ==
    /\ Len(last.samples) = 1
    /\ last.samples[1].metric = NamedMetric(last.name)
    /\ last.s \in DOMAIN timestamps.recent
         => last.samples[1].value = last.timestamp - timestamps.recent[last.s]

\* C24 as stated: a load (or DOMContentLoaded) lifecycle event of a known frame
\* sets the frame's bit and emits exactly one BrowserLoaded (or
\* BrowserDOMContentLoaded) sample of value timestamp minus init timestamp,
\* which is not negative when the timestamps never decreased.
C24_AlwaysOneSample ==
    LoadHandled
        => /\ NamedBit(last.name) \in lifecycleEvents[last.fid]
           /\ OneSample
           /\ timestamps.ordered => last.samples[1].value >= 0

\* C24 as amended: the same, the sample being emitted unless the session's
\* context is already done, in which case no sample is emitted.
C24_OneSampleUnlessDone ==
    LoadHandled
        => /\ NamedBit(last.name) \in lifecycleEvents[last.fid]
           /\ IF last.done THEN last.samples = <<>>
              ELSE /\ OneSample
                   /\ timestamps.ordered => last.samples[1].value >= 0

\* the child session handled a load of its frame after a commit at an earlier
\* time: one sample of a positive duration
C24_Witness ==
    /\ LoadHandled /\ last.name = "load" /\ last.s # MainSession /\ ~last.done
    /\ last.s \in DOMAIN timestamps.recent /\ MainSession \in DOMAIN timestamps.recent
    /\ timestamps.recent[last.s] # timestamps.recent[MainSession]
    /\ timestamps.ordered
    /\ OneSample /\ last.samples[1].value > 0

\* a handler of a diagnostic event returned
Diagnosed == last.op \in {"consoleAPICalled", "logEntryAdded"}

Detached == {f \in FrameIds : f < nextFrame /\ f \notin frames}

\* the timer worker of frame f timed out in this step
TimedOut(f) == last'.op = "networkIdleTimeout" /\ last'.fid = f

OtherHandled ==
    /\ last'.op = "lifecycleEvent"
    /\ last'.name \notin {"load", "DOMContentLoaded"}

\* the paint metric the specification names for a paint event
PaintMetric(name) ==
    IF name = "firstPaint" THEN "BrowserFirstPaint"
    ELSE IF name = "firstContentfulPaint" THEN "BrowserFirstContentfulPaint"
    ELSE "BrowserFirstMeaningfulPaint"

\* C31: a lifecycle event whose name is neither load nor DOMContentLoaded
\* changes no frame's lifecycle bits; the session's init timestamp changes only
\* on init and commit (it becomes the event's timestamp, no other session's
\* changes); a sample is emitted only for the three paint events, and it is
\* the paint metric of the name.
C31_OtherNamesLeaveBits ==
    [][ OtherHandled
          => /\ lifecycleEvents' = lifecycleEvents
             /\ subtreeLifecycleEvents' = subtreeLifecycleEvents
             /\ last'.emits = {}
             /\ \A s \in SessionIds :
                 initTime'[s] = IF s = last'.s /\ last'.name \in {"init", "commit"}
                                THEN last'.timestamp ELSE initTime[s]
             /\ last'.samples # <<>>
                  => /\ last'.name \in PaintNames
                     /\ Len(last'.samples) = 1
                     /\ last'.samples[1].metric = PaintMetric(last'.name) ]_vars

\* the browser's own networkIdle arrived for a registered frame that has reached
\* load and not network idle, in a session that has an init timestamp
C31_Witness ==
    /\ last.op = "lifecycleEvent" /\ last.name = "networkIdle" /\ last.known
    /\ LifecycleEventLoad \in lifecycleEvents[last.fid]
    /\ LifecycleEventNetworkIdle \notin lifecycleEvents[last.fid]
    /\ initTime[last.s] # zeroTime

\* C32: a lifecycle event (load, DOMContentLoaded or a paint event) whose frame
\* id is not in the frame registry when the handler looks it up emits no metric
\* sample.
C32_UnknownFrameNoSample ==
    (last.op = "lifecycleEvent" /\ ~last.known) => last.samples = <<>>

\* a load arrived for a frame that is not registered, the context not done
C32_Witness ==
    /\ last.op = "lifecycleEvent" /\ ~last.known /\ ~last.done
    /\ last.name = "load" /\ last.fid \notin frames
    /\ initTime[last.s] # zeroTime

\* ---- dispatch after cancellation
\* the step is the event loop of session s receiving an event from its channel
Dispatched(s) == Len(eventCh'[s]) < Len(eventCh[s])

\* C35 as stated: once the cancellation context has been signalled the event
\* loop dispatches no further event to any handler, even when events are pending
\* on the event channel at that moment.
C35_NoDispatchAfterCancel ==
    [][ ctxDone => \A s \in SessionIds : ~Dispatched(s) ]_vars

\* C35 as amended: once the cancellation context has been signalled the event
\* loop dispatches no further event after it has taken the cancellation branch
\* and returned (a loop that returned stays returned); until then a selection
\* may still dispatch an event that is pending on the channel.
C35_NoDispatchAfterExit ==
    [][ /\ last'.op = "loopExit" => last'.s \notin loops'
        /\ \A s \in SessionIds :
            /\ Dispatched(s) => s \in loops
            /\ (ctxDone /\ s \notin loops) => s \notin loops' ]_vars

\* a cancelled loop has returned with an event left on its channel, after it
\* had handled an event
C35_Witness ==
    /\ last.op = "loopExit" /\ ctxDone /\ last.s \notin loops
    /\ eventCh[last.s] # <<>>
    /\ handled[last.s] # <<>>

\* ---- a child construction that fails
\* the iframe branch of onAttachedToTarget returned after the construction of
\* the child failed (the error suppressed or escalated)
ChildFailed == last.op = "attachedReturn" /\ last.outcome # "ok"

\* C38 as stated: when the construction of the child FrameSession fails in
\* onAttachedToTarget, no FrameSession is registered with the page under that
\* frame id and the frame tree is left as it was before the event was handled.
C38_FailureLeavesTree ==
    ChildFailed
        => /\ frameSessions[last.targetID] # last.session
           /\ last.removed = {}

\* C38 as amended: no FrameSession is registered under that frame id, and the
\* frame tree is left as the handler made it before the construction: the
\* descendants of the target's frame that it removed stay removed, the return
\* changes neither the tree nor the registry of sessions.
C38_FailureKeepsRemoval ==
    [][ ChildFailed'
          => /\ frameSessions' = frameSessions
             /\ frameSessions'[last'.targetID] # last'.session
             /\ frames' = frames /\ parentFrame' = parentFrame
             /\ last'.removed \cap frames' = {} ]_vars

\* the construction of a child for a frame that had a descendant failed and the
\* error was suppressed: the descendant is gone, the frame has no session
C38_Witness ==
    /\ ChildFailed /\ last.err /\ last.outcome # "fatal"
    /\ last.removed # {}
    /\ last.targetID \in frames
    /\ frameSessions[last.targetID] = NoSession

\* C34: if NewFrameSession returns an error, no event-dispatch loop of the
\* failed session keeps running after the constructor has returned (here: the
\* construction of a child in onAttachedToTarget, the script run going on).
C34_FailedLoopStopped ==
    (ChildFailed /\ last.err /\ ~fatal) => last.session \notin loops

\* ---- slots and the map of contexts
\* the slots of the frames that hold a context made by session s
BoundBy(s) == {<<f, w>> \in FrameIds \X Worlds : executionContexts[f][w].sid = s}

RendererHandled(s) ==
    \/ Dispatched(s) /\ eventSet(Head(eventCh[s]).type) = "renderer"
    \/ last'.op = "created" /\ last'.s = s /\ nextCtx'[s] # nextCtx[s]

\* frame_session.go 274-283: the reply of Page.getFrameTree has arrived and
\* handleFrameTree has walked all of it
Seeded ==
    /\ ~build.tree.nil
    /\ \A i \in 1 .. Len(build.todo) :
          build.todo[i].cmd \notin {"onFrameAttached", navigatedInitial}

\* C36: the event loop of the main-frame session handles no renderer event
\* before the seeding of the frame tree from Page.getFrameTree has completed,
\* so no handler of the loop runs between two seeding calls; a non-main session
\* is subscribed to the renderer events before its first domain is enabled.
C36_SeedingBeforeRendererEvents ==
    /\ [][RendererHandled(MainSession) /\ build.s = MainSession => Seeded]_vars
    /\ [](build.s \notin {MainSession, NoSession} /\ build.enabled # {}
            => "renderer" \in build.subs)

\* the loop of the main session has registered a frame from a frameAttached
\* event while the constructor, past the seeding, is still running
C36_Witness ==
    /\ build.s = MainSession /\ build.todo # <<>> /\ Seeded
    /\ last.op = "event" /\ last.s = MainSession
    /\ last.event.type = "frameAttached" /\ last.event.fid \in frames

\* ---- the registry as the mirror of the browser's frames
\* the constructor of the main session has returned without an error, and its
\* loop has handled every event that reached the channel
MainSettled ==
    /\ build.s = MainSession /\ build.todo = <<>> /\ ~build.check /\ ~build.err
    /\ ~fatal
    /\ MainSession \in loops /\ pc[MainSession] = "idle" /\ eventCh[MainSession] = <<>>

\* C37: every frame event (frameAttached, frameNavigated, frameDetached) that
\* the browser emits for the main target after Page.enable was issued during
\* construction is reflected in the local frame tree, none is lost between the
\* reply of Page.getFrameTree and the subscription to the renderer events: once
\* the constructor has returned and the loop has nothing left to handle, the
\* registered frames are the frames the browser has.
C37_NoFrameEventLost == MainSettled => frames = build.browser

\* ---- the isolated-world set of a session under construction
\* the constructing task is at the read and the write of 298-303
ConstructorAtWorlds(s) == build.s = s /\ build.check

\* the loop of the session may run onExecutionContextCreated, whose write of
\* 534 is not guarded: it is running, between two handlers, and the browser
\* reports execution contexts to the session's channel
LoopAtWorlds(s) == Ready(s) /\ Delivers(s, "executionContextCreated")

\* C33: the isolated-world set of a session is never accessed by two tasks at
\* the same time: while the constructing task is at the read and write of
\* initIsolatedWorld, the session's event loop, already running and (a child
\* from the start, the main session after seeding) subscribed to
\* Runtime.executionContextCreated, cannot be in onExecutionContextCreated.
C33_WorldsNotShared ==
    \A s \in SessionIds : ~(ConstructorAtWorlds(s) /\ LoopAtWorlds(s))

\* the loop of the session under construction has written the set at 534,
\* after the constructor's write of 303 and while the constructor still runs
C33_Witness ==
    /\ last.op = "created" /\ last.done /\ last.type = "isolated"
    /\ build.s = last.s /\ build.todo # <<>>
    /\ utilityWorldName \in last.worlds0
====
